---- MODULE Spec2Model ----
(***************************************************************************)
(* Model of the mastering and batch-export backend.                        *)
(*                                                                         *)
(*   Spec        app/backend/api/export.py: batch_export, _safe_filename,  *)
(*               and services/mastering_service.py: master_track_to_bytes  *)
(*               (the orchestration: resolution, naming, temp files, zip). *)
(*   SpecMaster  services/mastering_service.py: master_track and the       *)
(*               measurement / limiting functions it calls (the numerics). *)
(*                                                                         *)
(* Text is a sequence of one-character strings.                            *)
(***************************************************************************)
EXTENDS Integers, Sequences, FiniteSets, TLC

VARIABLES
    \* ---- batch_export / master_track_to_bytes (Spec) ----
    op,          \* which entry point this run executes
    library,     \* the tracks table: id -> [title, kind]
    request,     \* BatchExportRequest: [track_ids, format]
    pc,          \* position inside the running entry point
    tracks,      \* export.py:44  resolved TrackInfo list
    idx,         \* export.py:71  position of the for loop (1-based)
    used_names,  \* export.py:69
    out_name,    \* export.py:74
    tmp_path,    \* export.py:86  local variable; 0 while unbound
    tmpfiles,    \* temporary files that exist on disk: path -> content
    created,     \* history: every temporary path ever created
    zf,          \* export.py:68  archive entries written so far
    mastered,    \* history: loop positions master_track was invoked for
    exc,         \* the exception being propagated ("none" when there is none)
    response,    \* what the caller receives
    \* ---- master_track (SpecMaster) ----
    infile,       \* the source file: [readable, sr, audio]
    params,       \* [target_lufs, true_peak_ceiling_db, target_sr]
    mpc,          \* the stage master_track is about to execute
    audio,        \* mastering_service.py:185  the buffer, one sequence per channel
    sr,           \* mastering_service.py:185  its sample rate
    ndim,         \* audio.ndim
    current_lufs, \* mastering_service.py:210
    tp_before,    \* mastering_service.py:222
    tp_after,     \* mastering_service.py:224
    prev_audio,   \* history: the buffer the last executed stage was given
    stages,       \* history: the stages executed so far
    outfile,      \* the file at output_path
    m_exc,        \* the exception master_track raised ("none" when none)
    \* ---- background jobs: api/generate.py and services/download_service.py ----
    job_status,   \* job["status"]
    queue,        \* job["queue"]: the events put and not yet taken
    loop_ready,   \* callbacks handed to loop.call_soon_threadsafe, not yet run
    loop_open,    \* the event loop has not been closed
    worker_pc,    \* position of the worker thread (_run / _run_download)
    progress_n,   \* number of progress callbacks made so far
    streams,      \* the progress streams: subscriber -> [pc, sent]
    status_log,   \* history: every value assigned to job["status"]
    put_log,      \* history: every event put on the queue, with the status then
    cancel_flags, \* job_id is a key of _cancel_flags
    cancel_event, \* cancel_event.is_set()
    cancel_pc,    \* position of the running cancel_download call
    cancel_log    \* history: what each cancel_download call returned

evars == <<op, library, request, pc, tracks, idx, used_names, out_name,
           tmp_path, tmpfiles, created, zf, mastered, exc, response>>

mvars == <<infile, params, mpc, audio, sr, ndim, current_lufs, tp_before, tp_after,
           prev_audio, stages, outfile, m_exc>>

jvars == <<job_status, queue, loop_ready, loop_open, worker_pc, progress_n, streams,
           status_log, put_log, cancel_flags, cancel_event, cancel_pc, cancel_log>>

vars == <<evars, mvars, jvars>>

----------------------------------------------------------------------------
(* Bounds of the model *)

MaxTracks == 3
MaxFrames == 3
MaxStereoFrames == 2

----------------------------------------------------------------------------
(* Text helpers *)

Digit(d) == CASE d = 0 -> "0" [] d = 1 -> "1" [] d = 2 -> "2" [] d = 3 -> "3"
              [] d = 4 -> "4" [] d = 5 -> "5" [] d = 6 -> "6" [] d = 7 -> "7"
              [] d = 8 -> "8" [] d = 9 -> "9"

RECURSIVE str(_)
\* Python's str(int) for a non-negative counter (export.py:79, the f-string)
str(n) == IF n < 10 THEN <<Digit(n)>> ELSE str(n \div 10) \o <<Digit(n % 10)>>

\* export.py:140  the character class [<>:"/\\|?*\x00-\x1f]
IllegalChars == {"<", ">", ":", "\"", "/", "\\", "|", "?", "*", "\t", "\n", "\r"}

\* export.py:141  the character class [\s_]
SpaceOrUnderscore == {" ", "\t", "\n", "\r", "_"}

\* export.py:141  the argument of strip / rstrip
StripChars == {"_", ".", " "}

\* mutant of SubIllegal: only the control characters are replaced
SubIllegal_ControlOnly(s) ==
    [k \in DOMAIN s |-> IF s[k] \in {"\t", "\n", "\r"} THEN "_" ELSE s[k]]

\* re.sub(r'[<>:"/\\|?*\x00-\x1f]', '_', name)
SubIllegal(s) == [k \in DOMAIN s |-> IF s[k] \in IllegalChars THEN "_" ELSE s[k]]

\* not a character: marks a position that the substitution drops
Dropped == "dropped"

IsKept(c) == c # Dropped

\* re.sub(r'[\s_]+', '_', s): every maximal run becomes one underscore, so the
\* first position of a run becomes "_" and its other positions are dropped
Collapse(s) ==
    LET marked == [i \in DOMAIN s |->
                      IF s[i] \notin SpaceOrUnderscore THEN s[i]
                      ELSE IF i = 1 \/ s[i - 1] \notin SpaceOrUnderscore THEN "_"
                      ELSE Dropped]
    IN  SelectSeq(marked, IsKept)

\* str.lstrip(cs): the text from its first character outside cs
LStrip(s, cs) ==
    LET stay == {i \in DOMAIN s : s[i] \notin cs}
    IN  IF stay = {} THEN << >>
        ELSE SubSeq(s, CHOOSE i \in stay : \A k \in stay : i <= k, Len(s))

\* str.rstrip(cs): the text up to its last character outside cs
RStrip(s, cs) ==
    LET stay == {i \in DOMAIN s : s[i] \notin cs}
    IN  IF stay = {} THEN << >>
        ELSE SubSeq(s, 1, CHOOSE i \in stay : \A k \in stay : i >= k)

Strip(s, cs) == RStrip(LStrip(s, cs), cs)

DefaultName == <<"t", "r", "a", "c", "k">>

\* mutant of _safe_filename: the illegal characters are replaced after the runs
\* were collapsed
_safe_filename_SubLast(name, max_len) ==
    LET safe1 == SubIllegal(Strip(Collapse(name), StripChars))
        safe3 == IF Len(safe1) > max_len
                 THEN RStrip(SubSeq(safe1, 1, max_len), StripChars)
                 ELSE safe1
    IN  IF safe3 = << >> THEN DefaultName ELSE safe3

\* mutant of _safe_filename: the cut at max_len is not trimmed again
_safe_filename_NoRetrim(name, max_len) ==
    LET safe1 == SubIllegal(name)
        safe2 == Strip(Collapse(safe1), StripChars)
        safe3 == IF Len(safe2) > max_len THEN SubSeq(safe2, 1, max_len) ELSE safe2
    IN  IF safe3 = << >> THEN DefaultName ELSE safe3

\* export.py:137-144
_safe_filename(name, max_len) ==
    LET safe1 == SubIllegal(name)
        safe2 == Strip(Collapse(safe1), StripChars)
        safe3 == IF Len(safe2) > max_len
                 THEN RStrip(SubSeq(safe2, 1, max_len), StripChars)
                 ELSE safe2
    IN  IF safe3 = << >> THEN DefaultName ELSE safe3

\* export.py:137  the default of max_len
max_len_default == 80

\* export.py:74 and export.py:79  the two f-strings that build out_name
PlainName(base_name, ext) == base_name \o ext
NumberedName(base_name, counter, ext) == base_name \o <<"_">> \o str(counter) \o ext

\* mutant of DedupLoop: an `if` where the code has a `while`
DedupLoop_Once(name, base_name, counter, ext, used) ==
    IF name \in used THEN NumberedName(base_name, counter, ext) ELSE name

RECURSIVE DedupLoop(_, _, _, _, _)
\* export.py:78-80  while out_name in used_names: ...
DedupLoop(name, base_name, counter, ext, used) ==
    IF name \in used
    THEN DedupLoop(NumberedName(base_name, counter, ext), base_name, counter + 1, ext, used)
    ELSE name

\* mutant of AssignedName: the counter starts at 2
AssignedName_FromTwo(base_name, ext, used) ==
    IF PlainName(base_name, ext) \in used
    THEN DedupLoop(NumberedName(base_name, 2, ext), base_name, 3, ext, used)
    ELSE PlainName(base_name, ext)

\* export.py:73-80  the name the loop body settles on for one track
AssignedName(base_name, ext, used) ==
    DedupLoop(PlainName(base_name, ext), base_name, 1, ext, used)

\* export.py:38  ext = f".{out_format}"
Ext(out_format) == IF out_format = "mp3" THEN <<".", "m", "p", "3">>
                                         ELSE <<".", "w", "a", "v">>

\* export.py:52, 73, 117  track.title or track.id
TitleOrId(t) == IF t.title # << >> THEN t.title ELSE t.id

----------------------------------------------------------------------------
(* The library and the requests the model explores *)

TrackIds == {<<"t", "1">>, <<"t", "2">>}
UnknownId == <<"t", "9">>
OtherUnknownId == <<"t", "8">>

\* the identifiers a request may name: those of the table and two that are not in it
RequestedIds == TrackIds \cup {UnknownId, OtherUnknownId}

Titles == { << >>,
            <<"a">>,
            <<"a", "_", "1">>,
            <<" ", "a", "/">>,
            <<".">> }

\* "ok": the audio file exists and decodes; "missing": audio_path is no file;
\* "corrupt": the file exists and master_track raises on it
Kinds == {"ok", "missing", "corrupt"}

Libraries == [TrackIds -> [title : Titles, kind : Kinds]]

RECURSIVE SeqsUpTo(_, _)
SeqsUpTo(S, n) ==
    IF n = 0 THEN {<< >>}
    ELSE LET shorter == SeqsUpTo(S, n - 1)
         IN  shorter \cup {Append(q, x) : q \in {r \in shorter : Len(r) = n - 1}, x \in S}

Formats == {"wav", "mp3"}

NoResponse == [status |-> 0, kind |-> "none", names |-> << >>, cause |-> "none",
               archive |-> << >>, filename |-> "none"]

Respond(status, kind, names, cause) ==
    [status |-> status, kind |-> kind, names |-> names, cause |-> cause,
     archive |-> << >>, filename |-> "none"]

\* remove one path from the temporary files on disk (Path.unlink(missing_ok=True))
Unlinked(files, p) == [q \in DOMAIN files \ {p} |-> files[q]]

\* mutant of FreshPath: the path is numbered by the temp files that exist now,
\* so the path of a removed file can be handed out while a later one is in use
FreshPath_CountsLiveFiles == Cardinality(DOMAIN tmpfiles) + 1

\* tempfile.NamedTemporaryFile(delete=False): a fresh path holding an empty file
FreshPath == Cardinality(created) + 1

NoFile == [exists |-> FALSE, sr |-> 0, data |-> << >>]

\* no background job exists
JobsIdle ==
    /\ job_status = "none"
    /\ queue = << >>
    /\ loop_ready = << >>
    /\ loop_open = TRUE
    /\ worker_pc = "idle"
    /\ progress_n = 0
    /\ streams = << >>
    /\ status_log = << >>
    /\ put_log = << >>
    /\ cancel_flags = FALSE
    /\ cancel_event = FALSE
    /\ cancel_pc = "idle"
    /\ cancel_log = << >>

\* master_track is not running (the runs of Spec leave it so)
MasterIdle ==
    /\ infile = [readable |-> FALSE, sr |-> 0, audio |-> << >>]
    /\ params = [target_lufs |-> 0, true_peak_ceiling_db |-> 0, target_sr |-> 0]
    /\ mpc = "idle"
    /\ audio = << >>
    /\ sr = 0
    /\ ndim = 0
    /\ current_lufs = 0
    /\ tp_before = 0
    /\ tp_after = 0
    /\ prev_audio = << >>
    /\ stages = << >>
    /\ outfile = NoFile
    /\ m_exc = "none"

\* batch_export is not running (the runs of SpecMaster leave it so)
ExportIdle ==
    /\ op = "master_track"
    /\ library = << >>
    /\ request = [track_ids |-> << >>, format |-> "wav"]
    /\ tracks = << >>
    /\ pc = "idle"
    /\ idx = 0
    /\ used_names = {}
    /\ out_name = << >>
    /\ tmp_path = 0
    /\ tmpfiles = << >>
    /\ created = {}
    /\ zf = << >>
    /\ mastered = << >>
    /\ exc = "none"
    /\ response = [status |-> 0, kind |-> "none", names |-> << >>, cause |-> "none",
                   archive |-> << >>, filename |-> "none"]

InitExport ==
    /\ op \in {"batch_export", "master_track_to_bytes"}
    /\ library \in Libraries
    /\ IF op = "batch_export"
       THEN /\ request \in [track_ids : SeqsUpTo(RequestedIds, MaxTracks),
                            format : Formats]
            /\ tracks = << >>
       ELSE /\ \E id \in TrackIds :
                 /\ request = [track_ids |-> <<id>>, format |-> "wav"]
                 /\ tracks = <<[id |-> id, title |-> library[id].title,
                                kind |-> library[id].kind]>>
    /\ pc = "start"
    /\ idx = 0
    /\ used_names = {}
    /\ out_name = << >>
    /\ tmp_path = 0
    /\ tmpfiles = << >>
    /\ created = {}
    /\ zf = << >>
    /\ mastered = << >>
    /\ exc = "none"
    /\ response = NoResponse

----------------------------------------------------------------------------
(* batch_export, export.py:24-134 *)

\* what get_track returns for an identifier that is not in the table
None == [id |-> << >>, title |-> << >>, kind |-> "none"]

\* library_service.get_track (library_service.py:105-123): None for an unknown id
get_track(tid) ==
    IF tid \in DOMAIN library
    THEN [id |-> tid, title |-> library[tid].title, kind |-> library[tid].kind]
    ELSE None

\* Path(t.audio_path).is_file()
is_file(t) == t.kind # "missing"

\* export.py:40-49  the empty check and the resolution loop; the loop raises at the
\* first identifier get_track does not resolve
ResolveTracks ==
    /\ op = "batch_export" /\ pc = "start"
    /\ LET track_ids == request.track_ids
           unresolved == {k \in DOMAIN track_ids : get_track(track_ids[k]) = None}
       IN  IF track_ids = << >>
           THEN /\ response' = Respond(400, "no_track_ids", << >>, "none")
                /\ pc' = "raised"
                /\ UNCHANGED tracks
           ELSE IF unresolved # {}
           THEN LET first == CHOOSE k \in unresolved : \A j \in unresolved : k <= j
                IN  /\ response' = Respond(404, "track_not_found", <<track_ids[first]>>, "none")
                    /\ pc' = "raised"
                    /\ tracks' = [k \in 1..(first - 1) |-> get_track(track_ids[k])]
           ELSE /\ tracks' = [k \in DOMAIN track_ids |-> get_track(track_ids[k])]
                /\ pc' = "verify"
                /\ UNCHANGED response
    /\ UNCHANGED <<mvars, jvars>>
    /\ UNCHANGED <<op, library, request, idx, used_names, out_name, tmp_path,
                   tmpfiles, created, zf, mastered, exc>>

\* mutant of MissingNames: only the first track's file is checked
MissingNames_FirstOnly(ts) ==
    IF ts = << >> \/ is_file(Head(ts)) THEN << >> ELSE <<TitleOrId(Head(ts))>>

RECURSIVE MissingNames(_)
\* export.py:52  [t.title or t.id for t in tracks if not Path(t.audio_path).is_file()]
MissingNames(ts) ==
    IF ts = << >> THEN << >>
    ELSE (IF is_file(Head(ts)) THEN << >> ELSE <<TitleOrId(Head(ts))>>)
         \o MissingNames(Tail(ts))

\* mutant of VerifyFiles: the name set is not created anew for the call
VerifyFiles_KeepsNames ==
    /\ op = "batch_export" /\ pc = "verify"
    /\ LET missing == MissingNames(tracks)
       IN  IF missing # << >>
           THEN /\ response' = Respond(404, "audio_not_found", missing, "none")
                /\ pc' = "raised"
                /\ UNCHANGED <<idx, zf>>
           ELSE /\ zf' = << >>
                /\ idx' = 1
                /\ pc' = "loop"
                /\ UNCHANGED response
    /\ UNCHANGED <<mvars, jvars>>
    /\ UNCHANGED <<op, library, request, tracks, used_names, out_name, tmp_path, tmpfiles,
                   created, mastered, exc>>

\* export.py:51-57 and 66-69  every audio file is checked before the archive is opened
VerifyFiles ==
    /\ op = "batch_export" /\ pc = "verify"
    /\ LET missing == MissingNames(tracks)
       IN  IF missing # << >>
           THEN /\ response' = Respond(404, "audio_not_found", missing, "none")
                /\ pc' = "raised"
                /\ UNCHANGED <<idx, used_names, zf>>
           ELSE /\ zf' = << >>
                /\ used_names' = {}
                /\ idx' = 1
                /\ pc' = "loop"
                /\ UNCHANGED response
    /\ UNCHANGED <<mvars, jvars>>
    /\ UNCHANGED <<op, library, request, tracks, out_name, tmp_path, tmpfiles,
                   created, mastered, exc>>

\* export.py:71-81  the next track's archive name
AssignName ==
    /\ op = "batch_export" /\ pc = "loop" /\ idx <= Len(tracks)
    /\ LET base_name == _safe_filename(TitleOrId(tracks[idx]), max_len_default)
           name == AssignedName(base_name, Ext(request.format), used_names)
       IN  /\ out_name' = name
           /\ used_names' = used_names \cup {name}
    /\ pc' = "mktemp"
    /\ UNCHANGED <<mvars, jvars>>
    /\ UNCHANGED <<op, library, request, tracks, idx, tmp_path, tmpfiles, created,
                   zf, mastered, exc, response>>

\* export.py:85-86  NamedTemporaryFile(suffix=".wav", delete=False); it may raise
\* (no space, no permission), and then tmp_path keeps its previous binding
CreateTemp ==
    /\ op = "batch_export" /\ pc = "mktemp"
    /\ \/ /\ tmp_path' = FreshPath
          /\ tmpfiles' = [q \in DOMAIN tmpfiles \cup {FreshPath} |->
                              IF q = FreshPath THEN "empty" ELSE tmpfiles[q]]
          /\ created' = created \cup {FreshPath}
          /\ pc' = "master"
          /\ UNCHANGED exc
       \/ /\ exc' = "tempfile"
          /\ pc' = "except"
          /\ UNCHANGED <<tmp_path, tmpfiles, created>>
    /\ UNCHANGED <<mvars, jvars>>
    /\ UNCHANGED <<op, library, request, tracks, idx, used_names, out_name, zf,
                   mastered, response>>

\* what master_track leaves at output_path for a source it can master
MasteredWav(t) == [src |-> t.id, codec |-> "wav"]

\* export.py:88-94  master_track(track.audio_path, tmp_path, ...): writes the
\* mastered WAV to tmp_path, or raises on a source it cannot decode
MasterTrack ==
    /\ op = "batch_export" /\ pc = "master"
    /\ mastered' = Append(mastered, idx)
    /\ IF tracks[idx].kind = "ok"
       THEN /\ tmpfiles' = [tmpfiles EXCEPT ![tmp_path] = MasteredWav(tracks[idx])]
            /\ pc' = "package"
            /\ UNCHANGED exc
       ELSE /\ exc' = "master_track"
            /\ pc' = "except"
            /\ UNCHANGED tmpfiles
    /\ UNCHANGED <<mvars, jvars>>
    /\ UNCHANGED <<op, library, request, tracks, idx, used_names, out_name, tmp_path,
                   created, zf, response>>

\* mastering_service.encode_mp3 (imported at export.py:17, called at export.py:99):
\* PCM samples, sample rate and bitrate in, a compressed payload out
encode_mp3(wav) == [src |-> wav.src, codec |-> "mp3"]

\* mutant of Package: the entry is not written before the loop goes on
Package_Deferred ==
    /\ op = "batch_export" /\ pc = "package"
    /\ \/ /\ pc' = "unlink"
          /\ UNCHANGED <<zf, exc>>
       \/ /\ exc' = IF request.format = "mp3" THEN "encode_mp3" ELSE "zip_write"
          /\ pc' = "except"
          /\ UNCHANGED zf
    /\ UNCHANGED <<mvars, jvars>>
    /\ UNCHANGED <<op, library, request, tracks, idx, used_names, out_name, tmp_path,
                   tmpfiles, created, mastered, response>>

\* export.py:96-103  the entry is added to the archive; encoding (mp3 only) and the
\* archive write may raise
Package ==
    /\ op = "batch_export" /\ pc = "package"
    /\ \/ /\ request.format = "mp3"
          /\ zf' = Append(zf, [name |-> out_name, payload |-> encode_mp3(tmpfiles[tmp_path])])
          /\ pc' = "unlink"
          /\ UNCHANGED exc
       \/ /\ request.format = "mp3"
          /\ exc' = "encode_mp3"
          /\ pc' = "except"
          /\ UNCHANGED zf
       \/ /\ request.format # "mp3"
          /\ zf' = Append(zf, [name |-> out_name, payload |-> tmpfiles[tmp_path]])
          /\ pc' = "unlink"
          /\ UNCHANGED exc
       \/ /\ exc' = "zip_write"
          /\ pc' = "except"
          /\ UNCHANGED zf
    /\ UNCHANGED <<mvars, jvars>>
    /\ UNCHANGED <<op, library, request, tracks, idx, used_names, out_name, tmp_path,
                   tmpfiles, created, mastered, response>>

\* export.py:105-108  tmp_path.unlink(missing_ok=True), then the next iteration
UnlinkTemp ==
    /\ op = "batch_export" /\ pc = "unlink"
    /\ tmpfiles' = Unlinked(tmpfiles, tmp_path)
    /\ idx' = idx + 1
    /\ pc' = "loop"
    /\ UNCHANGED <<mvars, jvars>>
    /\ UNCHANGED <<op, library, request, tracks, used_names, out_name, tmp_path,
                   created, zf, mastered, exc, response>>

\* mutant of ExceptCleanup: what was written so far is returned as the archive
ExceptCleanup_Partial ==
    /\ op = "batch_export" /\ pc = "except"
    /\ tmpfiles' = IF tmp_path # 0 /\ tmp_path \in DOMAIN tmpfiles
                   THEN Unlinked(tmpfiles, tmp_path)
                   ELSE tmpfiles
    /\ response' = [status |-> 200, kind |-> "zip", names |-> << >>, cause |-> exc,
                    archive |-> zf, filename |-> "mastered_export.zip"]
    /\ pc' = "returned"
    /\ UNCHANGED <<mvars, jvars>>
    /\ UNCHANGED <<op, library, request, tracks, idx, used_names, out_name, tmp_path,
                   created, zf, mastered, exc>>

\* mutant of ExceptCleanup: the failed track is skipped and the loop goes on
ExceptCleanup_Skip ==
    /\ op = "batch_export" /\ pc = "except"
    /\ tmpfiles' = IF tmp_path # 0 /\ tmp_path \in DOMAIN tmpfiles
                   THEN Unlinked(tmpfiles, tmp_path)
                   ELSE tmpfiles
    /\ idx' = idx + 1
    /\ exc' = "none"
    /\ pc' = "loop"
    /\ UNCHANGED <<mvars, jvars>>
    /\ UNCHANGED <<op, library, request, tracks, used_names, out_name, tmp_path,
                   created, zf, mastered, response>>

\* mutant of ExceptCleanup: the response names the track by its title alone,
\* as the log line does
ExceptCleanup_TitleOnly ==
    /\ op = "batch_export" /\ pc = "except"
    /\ tmpfiles' = IF tmp_path # 0 /\ tmp_path \in DOMAIN tmpfiles
                   THEN Unlinked(tmpfiles, tmp_path)
                   ELSE tmpfiles
    /\ response' = Respond(500, "failed_to_master", <<tracks[idx].title>>, exc)
    /\ pc' = "raised"
    /\ UNCHANGED <<mvars, jvars>>
    /\ UNCHANGED <<op, library, request, tracks, idx, used_names, out_name, tmp_path,
                   created, zf, mastered, exc>>

\* mutant of ExceptCleanup: the handler raises without removing the temp file
ExceptCleanup_NoUnlink ==
    /\ op = "batch_export" /\ pc = "except"
    /\ response' = Respond(500, "failed_to_master", <<TitleOrId(tracks[idx])>>, exc)
    /\ pc' = "raised"
    /\ UNCHANGED <<mvars, jvars>>
    /\ UNCHANGED <<op, library, request, tracks, idx, used_names, out_name, tmp_path,
                   tmpfiles, created, zf, mastered, exc>>

\* export.py:110-118  except Exception: remove the temp file if tmp_path is bound
\* and exists, then raise HTTPException(500) naming the track
ExceptCleanup ==
    /\ op = "batch_export" /\ pc = "except"
    /\ tmpfiles' = IF tmp_path # 0 /\ tmp_path \in DOMAIN tmpfiles
                   THEN Unlinked(tmpfiles, tmp_path)
                   ELSE tmpfiles
    /\ response' = Respond(500, "failed_to_master", <<TitleOrId(tracks[idx])>>, exc)
    /\ pc' = "raised"
    /\ UNCHANGED <<mvars, jvars>>
    /\ UNCHANGED <<op, library, request, tracks, idx, used_names, out_name, tmp_path,
                   created, zf, mastered, exc>>

\* export.py:120-134  the loop is over: the archive is returned
ReturnArchive ==
    /\ op = "batch_export" /\ pc = "loop" /\ idx > Len(tracks)
    /\ response' = [status |-> 200, kind |-> "zip", names |-> << >>, cause |-> "none",
                    archive |-> zf,
                    filename |-> IF request.format = "mp3" THEN "mp3_export.zip"
                                                           ELSE "mastered_export.zip"]
    /\ pc' = "returned"
    /\ UNCHANGED <<mvars, jvars>>
    /\ UNCHANGED <<op, library, request, tracks, idx, used_names, out_name, tmp_path,
                   tmpfiles, created, zf, mastered, exc>>

----------------------------------------------------------------------------
(* master_track_to_bytes, mastering_service.py:247-271 *)

\* mastering_service.py:262-263  the temp file is created before the try block
MtbCreateTemp ==
    /\ op = "master_track_to_bytes" /\ pc = "start"
    /\ \/ /\ tmp_path' = FreshPath
          /\ tmpfiles' = [q \in DOMAIN tmpfiles \cup {FreshPath} |->
                              IF q = FreshPath THEN "empty" ELSE tmpfiles[q]]
          /\ created' = created \cup {FreshPath}
          /\ pc' = "mtb_master"
          /\ UNCHANGED <<exc, response>>
       \/ /\ exc' = "tempfile"
          /\ response' = Respond(500, "exception", << >>, "tempfile")
          /\ pc' = "raised"
          /\ UNCHANGED <<tmp_path, tmpfiles, created>>
    /\ UNCHANGED <<mvars, jvars>>
    /\ UNCHANGED <<op, library, request, tracks, idx, used_names, out_name, zf, mastered>>

\* mastering_service.py:266  master_track(input_path, tmp_path, ...)
MtbMaster ==
    /\ op = "master_track_to_bytes" /\ pc = "mtb_master"
    /\ mastered' = Append(mastered, 1)
    /\ IF tracks[1].kind = "ok"
       THEN /\ tmpfiles' = [tmpfiles EXCEPT ![tmp_path] = MasteredWav(tracks[1])]
            /\ pc' = "mtb_read"
            /\ UNCHANGED exc
       ELSE /\ exc' = "master_track"
            /\ pc' = "mtb_finally"
            /\ UNCHANGED tmpfiles
    /\ UNCHANGED <<mvars, jvars>>
    /\ UNCHANGED <<op, library, request, tracks, idx, used_names, out_name, tmp_path,
                   created, zf, response>>

\* mastering_service.py:267  wav_bytes = tmp_path.read_bytes(); the read may raise
MtbRead ==
    /\ op = "master_track_to_bytes" /\ pc = "mtb_read"
    /\ \/ /\ zf' = <<[name |-> << >>, payload |-> tmpfiles[tmp_path]]>>
          /\ UNCHANGED exc
       \/ /\ exc' = "read_bytes"
          /\ UNCHANGED zf
    /\ pc' = "mtb_finally"
    /\ UNCHANGED <<mvars, jvars>>
    /\ UNCHANGED <<op, library, request, tracks, idx, used_names, out_name, tmp_path,
                   tmpfiles, created, mastered, response>>

\* mastering_service.py:268-271  finally: unlink; then return or re-raise
MtbFinally ==
    /\ op = "master_track_to_bytes" /\ pc = "mtb_finally"
    /\ tmpfiles' = Unlinked(tmpfiles, tmp_path)
    /\ IF exc = "none"
       THEN /\ response' = [status |-> 200, kind |-> "wav_bytes", names |-> << >>,
                            cause |-> "none", archive |-> zf, filename |-> "mastered.wav"]
            /\ pc' = "returned"
       ELSE /\ response' = Respond(500, "exception", << >>, exc)
            /\ pc' = "raised"
    /\ UNCHANGED <<mvars, jvars>>
    /\ UNCHANGED <<op, library, request, tracks, idx, used_names, out_name, tmp_path,
                   created, zf, mastered, exc>>

----------------------------------------------------------------------------

Init == InitExport /\ MasterIdle /\ JobsIdle

Next ==
    \/ ResolveTracks
    \/ VerifyFiles
    \/ AssignName
    \/ CreateTemp
    \/ MasterTrack
    \/ Package
    \/ UnlinkTemp
    \/ ExceptCleanup
    \/ ReturnArchive
    \/ MtbCreateTemp
    \/ MtbMaster
    \/ MtbRead
    \/ MtbFinally

Spec == Init /\ [][Next]_vars

----------------------------------------------------------------------------
(* Claims about batch_export and master_track_to_bytes (checked under Spec) *)

Finished == pc \in {"returned", "raised"}

\* the request names an identifier the library does not hold
SomeUnresolved ==
    \E k \in DOMAIN request.track_ids : request.track_ids[k] \notin DOMAIN library

\* the request names a track whose audio file is not on disk
SomeMissing ==
    \E k \in DOMAIN request.track_ids :
        /\ request.track_ids[k] \in DOMAIN library
        /\ library[request.track_ids[k]].kind = "missing"

\* C1: master_track is invoked for no track of a request unless every requested
\* id resolved and every resolved audio file exists; a request with an unresolved
\* id or a missing file ends in a 404 and leaves no archive, whatever the other
\* tracks are.
C1_PreconditionsBeforeMastering ==
    op = "batch_export" =>
        /\ (mastered # << >> => ~SomeUnresolved /\ ~SomeMissing)
        /\ (SomeUnresolved \/ SomeMissing) =>
              /\ zf = << >>
              /\ response.status # 200
              /\ (Finished => response.status = 404 /\ response.archive = << >>)

\* C1 witness: a three-track request with two valid tracks and one missing file
\* has been refused
C1_Witness ==
    /\ op = "batch_export" /\ pc = "raised"
    /\ Len(request.track_ids) = 3
    /\ SomeMissing /\ ~SomeUnresolved
    /\ Cardinality({k \in 1..3 : library[request.track_ids[k]].kind = "ok"}) = 2
    /\ response.status = 404 /\ mastered = << >>

\* C2: once mastering, encoding or the archive write has failed for a track, the
\* batch is at that track's handler or has raised: no later track is mastered,
\* no track is mastered twice, and the caller gets a 500 and never an archive.
C2_AbortOnFirstFailure ==
    (op = "batch_export" /\ exc # "none") =>
        /\ pc \in {"except", "raised"}
        /\ response.status # 200 /\ response.archive = << >>
        /\ (pc = "raised" => response.status = 500)
        /\ \A k \in DOMAIN mastered : mastered[k] = k /\ k <= idx
        /\ Len(zf) = idx - 1

\* C2 witness: a later track failed after an earlier one was already written
\* into the archive, with tracks still to go
C2_Witness ==
    /\ op = "batch_export" /\ pc = "raised" /\ response.status = 500
    /\ Len(zf) >= 1 /\ idx < Len(tracks)

\* C3: the archive names assigned within one batch are pairwise distinct: the
\* entries written so far have different names, and every name handed out so far
\* was new (used_names holds as many names as tracks were named)
C3_NamesDistinct ==
    op = "batch_export" =>
        /\ \A i, j \in DOMAIN zf : i # j => zf[i].name # zf[j].name
        /\ \A i \in DOMAIN zf : zf[i].name \in used_names
        /\ (pc \in {"mktemp", "master", "package", "unlink", "except"} =>
               Cardinality(used_names) = idx /\ out_name \in used_names)
        /\ (pc = "loop" => Cardinality(used_names) = idx - 1)

\* C3 witness: a returned three-entry archive of a batch that repeats a track id
\* and also holds a title that already ends in _1
C3_Witness ==
    /\ op = "batch_export" /\ pc = "returned" /\ Len(response.archive) = 3
    /\ request.track_ids[1] = request.track_ids[3]
    /\ \E k \in 1..3 : tracks[k].title = <<"a", "_", "1">>
    /\ \E k \in 1..3 : tracks[k].title = <<"a">>

base_of(t) == _safe_filename(TitleOrId(t), max_len_default)

\* how many earlier tracks of the batch share track i's sanitized title
EarlierSame(i) == Cardinality({j \in 1..(i - 1) : base_of(tracks[j]) = base_of(tracks[i])})

\* the name the claim gives the k-th later occurrence (k = 0: the first one)
OccurrenceName(base, k, ext) ==
    IF k = 0 THEN PlainName(base, ext) ELSE NumberedName(base, k, ext)

\* C4 as stated: the k-th later occurrence of a sanitized title is always named
\* <base>_k<ext>, whatever the other titles are
C4_Original ==
    op = "batch_export" =>
        \A i \in DOMAIN zf :
            zf[i].name = OccurrenceName(base_of(tracks[i]), EarlierSame(i), Ext(request.format))

\* no earlier track with a different sanitized title holds one of the names
\* <base><ext>, <base>_1<ext>, ..., <base>_k<ext>
NoForeignClash(i) ==
    \A j \in 1..(i - 1) :
        base_of(tracks[j]) # base_of(tracks[i]) =>
            \A m \in 0..EarlierSame(i) :
                zf[j].name # OccurrenceName(base_of(tracks[i]), m, Ext(request.format))

\* C4 (amended): the k-th later occurrence is named <base>_k<ext> when no earlier
\* track with a different sanitized title already holds <base><ext> or one of
\* <base>_1<ext> .. <base>_k<ext>; in every case it is named with the least
\* number whose name no earlier entry of the batch holds.
C4_SuffixCountsOccurrences ==
    op = "batch_export" =>
        \A i \in DOMAIN zf :
            LET base == base_of(tracks[i])
                ext == Ext(request.format)
                earlier == {zf[j].name : j \in 1..(i - 1)}
            IN  /\ NoForeignClash(i) =>
                       zf[i].name = OccurrenceName(base, EarlierSame(i), ext)
                /\ \E m \in 0..(i - 1) :
                       /\ zf[i].name = OccurrenceName(base, m, ext)
                       /\ \A n \in 0..(m - 1) : OccurrenceName(base, n, ext) \in earlier

\* C4 witness: three tracks with one sanitized title, the third one named <base>_2
C4_Witness ==
    /\ op = "batch_export" /\ Len(zf) = 3
    /\ EarlierSame(3) = 2
    /\ zf[3].name = NumberedName(base_of(tracks[3]), 2, Ext(request.format))
    /\ zf[2].name = NumberedName(base_of(tracks[3]), 1, Ext(request.format))

\* C5: a returned archive holds one entry per element of track_ids, in request
\* order, each made from that element's track in the requested format
C5_OneEntryPerRequestedTrack ==
    (op = "batch_export" /\ pc = "returned") =>
        /\ response.status = 200
        /\ Len(response.archive) = Len(request.track_ids)
        /\ \A k \in DOMAIN request.track_ids :
              /\ response.archive[k].payload.src = request.track_ids[k]
              /\ response.archive[k].payload.codec = request.format

\* C5 witness: a returned archive for a request that names one id twice
C5_Witness ==
    /\ op = "batch_export" /\ pc = "returned"
    /\ Len(request.track_ids) = 3
    /\ request.track_ids[1] = request.track_ids[2]
    /\ request.track_ids[3] # request.track_ids[1]
    /\ Len(response.archive) = 3

\* C6: when batch_export or master_track_to_bytes has returned or raised, no
\* temporary file it created is left on disk
C6_NoTempFileLeft ==
    Finished => DOMAIN tmpfiles = {}

\* C6 witness: the archive write failed on a later track after an earlier track
\* had succeeded, and two temporary files had been created
C6_Witness ==
    /\ op = "batch_export" /\ pc = "raised" /\ exc = "zip_write"
    /\ Len(zf) >= 1 /\ Cardinality(created) >= 2

----------------------------------------------------------------------------
(* Fixed-point arithmetic for the mastering numerics.                      *)
(*                                                                         *)
(* A sample is an integer count of 1/FullScale, so 1.0 is FullScale; a     *)
(* level in dB is an integer count of 0.1 dB; a linear factor is an        *)
(* integer count of 1/AmpUnit.  Every product is rounded to the nearest    *)
(* unit, which is far coarser than float64 rounding.  NaN is a reserved    *)
(* integer outside the range of every sample.                              *)

FullScale == 1000
AmpUnit == 10000
NaN == -2000000000

Abs(x) == IF x < 0 THEN -x ELSE x

\* a / b rounded to the nearest integer, halves away from zero (b > 0)
RoundDiv(a, b) == IF a >= 0 THEN (2 * a + b) \div (2 * b)
                            ELSE -((2 * (-a) + b) \div (2 * b))

\* x * k / unit on one sample; NaN stays NaN
Scale(x, k, unit) == IF x = NaN THEN NaN ELSE RoundDiv(x * k, unit)

RECURSIVE Pow10(_)
Pow10(n) == IF n = 0 THEN 1 ELSE 10 * Pow10(n - 1)

\* 10 ** (r / 200) in units of 1/AmpUnit, r = 0 .. 199 (index r + 1)
Pow10Table ==
    <<
       10000, 10116, 10233, 10351, 10471, 10593, 10715, 10839, 10965, 11092,
       11220, 11350, 11482, 11614, 11749, 11885, 12023, 12162, 12303, 12445,
       12589, 12735, 12882, 13032, 13183, 13335, 13490, 13646, 13804, 13964,
       14125, 14289, 14454, 14622, 14791, 14962, 15136, 15311, 15488, 15668,
       15849, 16032, 16218, 16406, 16596, 16788, 16982, 17179, 17378, 17579,
       17783, 17989, 18197, 18408, 18621, 18836, 19055, 19275, 19498, 19724,
       19953, 20184, 20417, 20654, 20893, 21135, 21380, 21627, 21878, 22131,
       22387, 22646, 22909, 23174, 23442, 23714, 23988, 24266, 24547, 24831,
       25119, 25410, 25704, 26002, 26303, 26607, 26915, 27227, 27542, 27861,
       28184, 28510, 28840, 29174, 29512, 29854, 30200, 30549, 30903, 31261,
       31623, 31989, 32359, 32734, 33113, 33497, 33884, 34277, 34674, 35075,
       35481, 35892, 36308, 36728, 37154, 37584, 38019, 38459, 38905, 39355,
       39811, 40272, 40738, 41210, 41687, 42170, 42658, 43152, 43652, 44157,
       44668, 45186, 45709, 46238, 46774, 47315, 47863, 48417, 48978, 49545,
       50119, 50699, 51286, 51880, 52481, 53088, 53703, 54325, 54954, 55590,
       56234, 56885, 57544, 58210, 58884, 59566, 60256, 60954, 61660, 62373,
       63096, 63826, 64565, 65313, 66069, 66834, 67608, 68391, 69183, 69984,
       70795, 71614, 72444, 73282, 74131, 74989, 75858, 76736, 77625, 78524,
       79433, 80353, 81283, 82224, 83176, 84140, 85114, 86099, 87096, 88105,
       89125, 90157, 91201, 92257, 93325, 94406, 95499, 96605, 97724, 98855
    >>

Log10Thresholds ==
    <<
       1000, 1012, 1036, 1060, 1084, 1110, 1136, 1162, 1189, 1217,
       1245, 1274, 1304, 1334, 1365, 1397, 1429, 1463, 1497, 1532,
       1567, 1604, 1641, 1679, 1718, 1758, 1799, 1841, 1884, 1928,
       1973, 2019, 2066, 2114, 2163, 2214, 2265, 2318, 2372, 2427,
       2484, 2541, 2601, 2661, 2723, 2787, 2852, 2918, 2986, 3055,
       3127, 3199, 3274, 3350, 3428, 3508, 3590, 3673, 3759, 3846,
       3936, 4028, 4121, 4217, 4316, 4416, 4519, 4624, 4732, 4842,
       4955, 5070, 5189, 5309, 5433, 5560, 5689, 5822, 5957, 6096,
       6238, 6383, 6532, 6684, 6840, 6999, 7162, 7329, 7499, 7674,
       7853, 8036, 8223, 8414, 8610, 8811, 9016, 9226, 9441, 9661,
       9886
    >>

\* 10.0 ** (db / 20.0) with db in 0.1 dB, in units of 1/AmpUnit
\* (mastering_service.py:124 and :215)
DbToLin(ddb) ==
    LET q == ddb \div 200
        r == ddb % 200
    IN  IF q >= 0 THEN Pow10Table[r + 1] * Pow10(q)
                  ELSE RoundDiv(Pow10Table[r + 1], Pow10(-q))

RECURSIVE LongDivRem(_, _, _)
\* the remainder left after `digits` decimal places of the long division num / den
LongDivRem(num, den, digits) ==
    IF digits = 0 THEN num % den ELSE (LongDivRem(num, den, digits - 1) * 10) % den

RECURSIVE Mantissa(_, _, _)
\* floor(num / den * 10^digits) by long division, for den <= num < 10 * den
Mantissa(num, den, digits) ==
    IF digits = 0 THEN num \div den
    ELSE 10 * Mantissa(num, den, digits - 1)
         + (LongDivRem(num, den, digits - 1) * 10) \div den

RECURSIVE CentiLog10(_, _)
\* round(100 * log10(num / den)) for num, den > 0  (np.log10, mastering_service.py:85, :113)
CentiLog10(num, den) ==
    IF num >= 100000000 /\ den >= 1000
    THEN CentiLog10(RoundDiv(num, 10), RoundDiv(den, 10))
    ELSE IF num < den THEN CentiLog10(num * 10, den) - 100
    ELSE IF num >= 10 * den THEN CentiLog10(num, den * 10) + 100
    ELSE LET m == Mantissa(num, den, 3)
             r == CHOOSE k \in 0..100 :
                      /\ Log10Thresholds[k + 1] <= m
                      /\ (k < 100 => m < Log10Thresholds[k + 2])
         IN  r

----------------------------------------------------------------------------
(* scipy.signal.resample_poly as the service uses it.  The library's        *)
(* Kaiser-windowed low-pass is stood in for by a four-tap cubic kernel with *)
(* the phase held in sixteenths: it is linear, it keeps the input samples   *)
(* at phase 0, it overshoots between samples, and the output length is the  *)
(* library's.                                                               *)

PhaseSteps == 16
KernelUnit == 8192

\* the four tap weights at phase t / PhaseSteps, in units of 1/KernelUnit
TapWeights(t) ==
    << -(t * t * t) + 32 * t * t - 256 * t,
       3 * t * t * t - 80 * t * t + 8192,
       -3 * (t * t * t) + 64 * t * t + 256 * t,
       t * t * t - 16 * t * t >>

\* x[i] with zero padding outside the signal (0-based i)
Tap(x, i) == IF i >= 0 /\ i < Len(x) THEN x[i + 1] ELSE 0

\* n_out = n * up // down + bool(n * up % down)
ResampleLen(n, up, down) ==
    (n * up) \div down + (IF (n * up) % down # 0 THEN 1 ELSE 0)

\* resample_poly(x, up, down) on one channel
resample_poly(x, up, down) ==
    [j \in 1..ResampleLen(Len(x), up, down) |->
        LET pos == (j - 1) * down
            i == pos \div up
            w == TapWeights(((pos % up) * PhaseSteps) \div up)
            taps == <<Tap(x, i - 1), Tap(x, i), Tap(x, i + 1), Tap(x, i + 2)>>
        IN  IF \E k \in 1..4 : taps[k] = NaN
            THEN NaN
            ELSE RoundDiv(w[1] * taps[1] + w[2] * taps[2] + w[3] * taps[3] + w[4] * taps[4],
                          KernelUnit)]

\* the largest element of a non-empty sequence of integers
SeqMax(x) == CHOOSE v \in {x[k] : k \in DOMAIN x} : \A k \in DOMAIN x : x[k] <= v

\* np.max(np.abs(x)) on a non-empty array: NaN as soon as one element is NaN
np_max_abs(x) ==
    IF \E k \in DOMAIN x : x[k] = NaN THEN NaN
    ELSE SeqMax([k \in DOMAIN x |-> Abs(x[k])])

\* Python's max(a, b): b only when b > a, and no comparison with NaN is true
py_max(a, b) == IF a # NaN /\ b # NaN /\ b > a THEN b ELSE a

RECURSIVE PeakOver(_, _)
\* mastering_service.py:104-109 and :133-136  the loop over the channels
PeakOver(chans, max_peak) ==
    IF chans = << >> THEN max_peak
    ELSE PeakOver(Tail(chans),
                  py_max(max_peak, np_max_abs(resample_poly(Head(chans), 4, 1))))

\* the number of frames of a buffer held as a sequence of channels
Frames(buf) == Len(buf[1])

\* mastering_service.py:91-113  in 0.1 dB; the peak itself is OversampledPeak
OversampledPeak(buf) == PeakOver(buf, 0)

measure_true_peak_db(buf) ==
    LET max_peak == OversampledPeak(buf)
    IN  IF max_peak <= 0 THEN -1000
        ELSE 2 * CentiLog10(max_peak, FullScale)

\* the largest |sample| of the buffer, without oversampling
SamplePeak(buf) ==
    LET RECURSIVE Over(_, _)
        Over(chans, m) == IF chans = << >> THEN m
                          ELSE Over(Tail(chans), py_max(m, np_max_abs(Head(chans))))
    IN  Over(buf, 0)

\* mutant of _true_peak_limit: each channel is reduced by its own peak
_true_peak_limit_PerChannel(buf, ceiling_db) ==
    LET ceiling_lin == DbToLin(ceiling_db)
        max_tp == OversampledPeak(buf)
    IN  IF max_tp * (AmpUnit \div FullScale) <= ceiling_lin
        THEN buf
        ELSE [c \in DOMAIN buf |->
                LET ch_tp == OversampledPeak(<<buf[c]>>)
                IN  IF ch_tp * (AmpUnit \div FullScale) <= ceiling_lin
                    THEN buf[c]
                    ELSE [k \in DOMAIN buf[c] |->
                            Scale(buf[c][k], RoundDiv(ceiling_lin * 9980, ch_tp), 100000)]]

\* mutant of _true_peak_limit: the reduction is taken from the sample peak
_true_peak_limit_SamplePeak(buf, ceiling_db) ==
    LET ceiling_lin == DbToLin(ceiling_db)
        max_tp == SamplePeak(buf)
    IN  IF max_tp * (AmpUnit \div FullScale) <= ceiling_lin
        THEN buf
        ELSE LET reduction == RoundDiv(ceiling_lin * 9980, max_tp)
             IN  [c \in DOMAIN buf |->
                    [k \in DOMAIN buf[c] |-> Scale(buf[c][k], reduction, 100000)]]

\* mastering_service.py:118-145  the buffer after limiting
_true_peak_limit(buf, ceiling_db) ==
    LET ceiling_lin == DbToLin(ceiling_db)
        max_tp == OversampledPeak(buf)
    IN  IF max_tp * (AmpUnit \div FullScale) <= ceiling_lin
        THEN buf
        ELSE LET reduction == RoundDiv(ceiling_lin * 9980, max_tp)
             IN  [c \in DOMAIN buf |->
                    [k \in DOMAIN buf[c] |-> Scale(buf[c][k], reduction, 100000)]]

\* mastering_service.py:33-53  _k_weighting on one channel: a high-pass branch
\* added back at 0.6, then a high-pass near 38 Hz.  The two Butterworth
\* sections are stood in for by a second difference and by a first-order
\* leak; NaN reaches every later output, as in a recursive filter.
_k_weighting(x) ==
    [n \in DOMAIN x |->
        IF \E k \in 1..n : x[k] = NaN THEN NaN
        ELSE LET at(i) == IF i >= 1 THEN x[i] ELSE 0
                 stage1(i) == IF i < 1 THEN 0
                              ELSE RoundDiv(20 * at(i) + 3 * (at(i) - 2 * at(i - 1) + at(i - 2)), 20)
             IN  stage1(n) - RoundDiv(stage1(n - 1), 200)]

RECURSIVE SumSqTo(_, _)
SumSqTo(x, n) == IF n = 0 THEN 0 ELSE x[n] * x[n] + SumSqTo(x, n - 1)

SumSq(x) == SumSqTo(x, Len(x))

RECURSIVE SumSqAll(_)
SumSqAll(chans) == IF chans = << >> THEN 0 ELSE SumSq(Head(chans)) + SumSqAll(Tail(chans))

SILENCE_LUFS == -700

\* mastering_service.py:56-86  in 0.1 dB; NaN for an empty buffer (np.mean of
\* nothing) and for a buffer that holds a NaN
measure_lufs(buf) ==
    LET weighted == [c \in DOMAIN buf |-> _k_weighting(buf[c])]
    IN  IF Frames(buf) = 0 THEN NaN
        ELSE IF \E c \in DOMAIN buf : \E k \in DOMAIN buf[c] : weighted[c][k] = NaN
        THEN NaN
        ELSE LET weighted_sum == SumSqAll(weighted)
             IN  IF weighted_sum <= 0 THEN SILENCE_LUFS
                 ELSE -7 + CentiLog10(weighted_sum, Frames(buf) * FullScale * FullScale)

\* mutant of ApplyGain: the gain stops 3 dB short of the target
ApplyGain_Headroom(buf, lufs, target_lufs) ==
    IF lufs # NaN /\ lufs > SILENCE_LUFS
    THEN LET gain_lin == DbToLin(target_lufs - lufs - 30)
         IN  [c \in DOMAIN buf |->
                [k \in DOMAIN buf[c] |-> Scale(buf[c][k], gain_lin, AmpUnit)]]
    ELSE buf

\* mutant of ApplyGain: the gain is the target itself, not its distance from
\* the measured loudness
ApplyGain_FixedGain(buf, lufs, target_lufs) ==
    IF lufs # NaN /\ lufs > SILENCE_LUFS
    THEN LET gain_lin == DbToLin(target_lufs)
         IN  [c \in DOMAIN buf |->
                [k \in DOMAIN buf[c] |-> Scale(buf[c][k], gain_lin, AmpUnit)]]
    ELSE buf

\* mutant of ApplyGain: the silence floor is not consulted
ApplyGain_NoFloor(buf, lufs, target_lufs) ==
    IF lufs # NaN
    THEN LET gain_lin == DbToLin(target_lufs - lufs)
         IN  [c \in DOMAIN buf |->
                [k \in DOMAIN buf[c] |-> Scale(buf[c][k], gain_lin, AmpUnit)]]
    ELSE buf

\* mastering_service.py:213-219  the gain stage
ApplyGain(buf, lufs, target_lufs) ==
    IF lufs # NaN /\ lufs > SILENCE_LUFS
    THEN LET gain_lin == DbToLin(target_lufs - lufs)
         IN  [c \in DOMAIN buf |->
                [k \in DOMAIN buf[c] |-> Scale(buf[c][k], gain_lin, AmpUnit)]]
    ELSE buf

\* mastering_service.py:231  np.clip(audio, -1.0, 1.0); NaN is left as it is
np_clip(buf) ==
    [c \in DOMAIN buf |->
        [k \in DOMAIN buf[c] |->
            LET v == buf[c][k]
            IN  IF v = NaN THEN NaN
                ELSE IF v > FullScale THEN FullScale
                ELSE IF v < -FullScale THEN -FullScale
                ELSE v]]

RECURSIVE Gcd(_, _)
\* math.gcd
Gcd(a, b) == IF b = 0 THEN a ELSE Gcd(b, a % b)

\* mutant of CeilRows: int() without np.ceil
CeilRows_Floor(n, up, down) == (n * up) \div down

\* mastering_service.py:199-200  int(np.ceil(len(audio) * up / down))
CeilRows(n, up, down) == ((n * up) + down - 1) \div down

\* mastering_service.py:197-198  up, down = target_sr // g, sr // g
\* mutant of UpOf: the two rates are taken the wrong way round
UpOf_Swapped(rate, target_sr) == rate \div Gcd(rate, target_sr)

UpOf(rate, target_sr) == target_sr \div Gcd(rate, target_sr)
DownOf(rate, target_sr) == rate \div Gcd(rate, target_sr)

\* mastering_service.py:204  resample_poly(audio[:, ch], up, down)[: resampled.shape[0]]
ResampledChannel(x, rate, target_sr) ==
    LET y == resample_poly(x, UpOf(rate, target_sr), DownOf(rate, target_sr))
        rows == CeilRows(Len(x), UpOf(rate, target_sr), DownOf(rate, target_sr))
    IN  SubSeq(y, 1, IF Len(y) < rows THEN Len(y) ELSE rows)

\* mutant of Resampled: only the first channel is resampled and kept
Resampled_FirstChannel(buf, rate, target_sr) ==
    <<ResampledChannel(buf[1], rate, target_sr)>>

\* mastering_service.py:199-205  the buffer after the loop over the channels
Resampled(buf, rate, target_sr) ==
    [c \in DOMAIN buf |-> ResampledChannel(buf[c], rate, target_sr)]

\* mastering_service.py:204  the assignment into resampled[:, ch] raises ValueError
\* when the slice does not have resampled.shape[0] elements
ResampleFits(buf, rate, target_sr) ==
    \A c \in DOMAIN buf :
        Len(ResampledChannel(buf[c], rate, target_sr))
            = CeilRows(Frames(buf), UpOf(rate, target_sr), DownOf(rate, target_sr))

\* sf.write(..., subtype="PCM_16") on one sample: scaled to 16 bits and rounded;
\* the conversion of NaN to an integer is undefined, `garbage` is what it yields
Pcm16(v, garbage) == IF v = NaN THEN garbage ELSE RoundDiv(v * 32767, FullScale)

----------------------------------------------------------------------------
(* master_track, mastering_service.py:150-244 *)

SourceRates == {44100, 48000}
TargetRates == {22050, 44100, 96000}
TargetLufs == {-140, 0}
Ceilings == {-60, -10, 0}

MonoLevels == {0, 300, -1000, NaN}
StereoLevels == {0, 700, NaN}

\* a long, very quiet mono buffer: its loudness is below the silence floor
QuietProbe == <<1, 0, 0, 0, 0, 0, 0, 0, 0, 0, 0, 0>>

Buffers ==
    {<<x>> : x \in SeqsUpTo(MonoLevels, MaxFrames)}
    \cup {b \in SeqsUpTo(StereoLevels, MaxStereoFrames) \X SeqsUpTo(StereoLevels, MaxStereoFrames) :
             Len(b[1]) = Len(b[2])}
    \cup {<<QuietProbe>>}

InitMaster ==
    /\ JobsIdle
    /\ ExportIdle
    /\ \/ infile \in [readable : {TRUE}, sr : SourceRates, audio : Buffers]
       \/ infile = [readable |-> FALSE, sr |-> 0, audio |-> << >>]
    /\ params \in [target_lufs : TargetLufs, true_peak_ceiling_db : Ceilings,
                   target_sr : TargetRates]
    /\ mpc = "read"
    /\ audio = << >>
    /\ sr = 0
    /\ ndim = 0
    /\ current_lufs = 0
    /\ tp_before = 0
    /\ tp_after = 0
    /\ prev_audio = << >>
    /\ stages = << >>
    /\ outfile = NoFile
    /\ m_exc = "none"

\* mastering_service.py:184-187  sf.read raises on a file it cannot decode; a
\* mono file comes back 1-D and is given its channel axis
ReadSource ==
    /\ mpc = "read"
    /\ stages' = Append(stages, "load")
    /\ IF infile.readable
       THEN /\ audio' = infile.audio
            /\ sr' = infile.sr
            /\ ndim' = 2
            /\ mpc' = "resample"
            /\ UNCHANGED m_exc
       ELSE /\ m_exc' = "LibsndfileError"
            /\ mpc' = "error"
            /\ UNCHANGED <<audio, sr, ndim>>
    /\ UNCHANGED <<infile, params, current_lufs, tp_before, tp_after, prev_audio, outfile>>
    /\ UNCHANGED <<evars, jvars>>

\* mutant of Resample: the buffer is filtered (two-sample average) also when the
\* rates are equal
Resample_AlwaysFilters ==
    /\ mpc = "resample"
    /\ stages' = Append(stages, "resample")
    /\ prev_audio' = audio
    /\ audio' = IF sr # params.target_sr
                THEN Resampled(audio, sr, params.target_sr)
                ELSE [c \in DOMAIN audio |->
                        [k \in DOMAIN audio[c] |->
                            IF audio[c][k] = NaN THEN NaN
                            ELSE IF k = 1 \/ audio[c][k - 1] = NaN THEN RoundDiv(audio[c][k], 2)
                            ELSE RoundDiv(audio[c][k] + audio[c][k - 1], 2)]]
    /\ sr' = params.target_sr
    /\ mpc' = "measure"
    /\ UNCHANGED <<infile, params, ndim, current_lufs, tp_before, tp_after, outfile, m_exc>>
    /\ UNCHANGED <<evars, jvars>>

\* mastering_service.py:194-207
Resample ==
    /\ mpc = "resample"
    /\ stages' = Append(stages, "resample")
    /\ prev_audio' = audio
    /\ IF sr # params.target_sr
       THEN IF ResampleFits(audio, sr, params.target_sr)
            THEN /\ audio' = Resampled(audio, sr, params.target_sr)
                 /\ sr' = params.target_sr
                 /\ mpc' = "measure"
                 /\ UNCHANGED m_exc
            ELSE /\ m_exc' = "ValueError"
                 /\ mpc' = "error"
                 /\ UNCHANGED <<audio, sr>>
       ELSE /\ mpc' = "measure"
            /\ UNCHANGED <<audio, sr, m_exc>>
    /\ UNCHANGED <<infile, params, ndim, current_lufs, tp_before, tp_after, outfile>>
    /\ UNCHANGED <<evars, jvars>>

\* mastering_service.py:209-211
MeasureLoudness ==
    /\ mpc = "measure"
    /\ stages' = Append(stages, "measure")
    /\ prev_audio' = audio
    /\ current_lufs' = measure_lufs(audio)
    /\ mpc' = "gain"
    /\ UNCHANGED <<infile, params, audio, sr, ndim, tp_before, tp_after, outfile, m_exc>>
    /\ UNCHANGED <<evars, jvars>>

\* mastering_service.py:213-219
GainStage ==
    /\ mpc = "gain"
    /\ stages' = Append(stages, "gain")
    /\ prev_audio' = audio
    /\ audio' = ApplyGain(audio, current_lufs, params.target_lufs)
    /\ mpc' = "limit"
    /\ UNCHANGED <<infile, params, sr, ndim, current_lufs, tp_before, tp_after, outfile, m_exc>>
    /\ UNCHANGED <<evars, jvars>>

\* mastering_service.py:221-228  np.max raises ValueError on an empty channel
LimitStage ==
    /\ mpc = "limit"
    /\ stages' = Append(stages, "limit")
    /\ prev_audio' = audio
    /\ IF Frames(audio) = 0
       THEN /\ m_exc' = "ValueError"
            /\ mpc' = "error"
            /\ UNCHANGED <<audio, tp_before, tp_after>>
       ELSE /\ tp_before' = measure_true_peak_db(audio)
            /\ audio' = _true_peak_limit(audio, params.true_peak_ceiling_db)
            /\ tp_after' = measure_true_peak_db(audio')
            /\ mpc' = "clip"
            /\ UNCHANGED m_exc
    /\ UNCHANGED <<infile, params, sr, ndim, current_lufs, outfile>>
    /\ UNCHANGED <<evars, jvars>>

\* mastering_service.py:230-231
ClipGuard ==
    /\ mpc = "clip"
    /\ stages' = Append(stages, "clip")
    /\ prev_audio' = audio
    /\ audio' = np_clip(audio)
    /\ mpc' = "squeeze"
    /\ UNCHANGED <<infile, params, sr, ndim, current_lufs, tp_before, tp_after, outfile, m_exc>>
    /\ UNCHANGED <<evars, jvars>>

\* mastering_service.py:233-235  a single channel is flattened to 1-D
SqueezeMono ==
    /\ mpc = "squeeze"
    /\ stages' = Append(stages, "squeeze")
    /\ prev_audio' = audio
    /\ ndim' = IF Len(audio) = 1 THEN 1 ELSE 2
    /\ mpc' = "write"
    /\ UNCHANGED <<infile, params, audio, sr, current_lufs, tp_before, tp_after, outfile, m_exc>>
    /\ UNCHANGED <<evars, jvars>>

\* mastering_service.py:237-244  the 16-bit WAV is written at target_sr
WriteWav ==
    /\ mpc = "write"
    /\ stages' = Append(stages, "encode")
    /\ prev_audio' = audio
    /\ \E garbage \in {0, -32768} :
          outfile' = [exists |-> TRUE, sr |-> params.target_sr,
                      data |-> [c \in DOMAIN audio |->
                                  [k \in DOMAIN audio[c] |-> Pcm16(audio[c][k], garbage)]]]
    /\ mpc' = "done"
    /\ UNCHANGED <<infile, params, audio, sr, ndim, current_lufs, tp_before, tp_after, m_exc>>
    /\ UNCHANGED <<evars, jvars>>

NextMaster ==
    \/ ReadSource
    \/ Resample
    \/ MeasureLoudness
    \/ GainStage
    \/ LimitStage
    \/ ClipGuard
    \/ SqueezeMono
    \/ WriteWav

SpecMaster == InitMaster /\ [][NextMaster]_vars

----------------------------------------------------------------------------
(* Claims about master_track (checked under SpecMaster) *)

HasNaN(buf) == \E c \in DOMAIN buf : \E k \in DOMAIN buf[c] : buf[c][k] = NaN

AllZero(buf) == \A c \in DOMAIN buf : \A k \in DOMAIN buf[c] : buf[c][k] = 0

\* the stage executed last
LastStage == IF stages = << >> THEN "none" ELSE stages[Len(stages)]

\* C7: the buffer that leaves the gain and limit stages has a 4x-oversampled peak
\* of at most the ceiling plus the tolerance (0.05 dB is a factor above 1.005),
\* and the peak logged after limiting is not above the ceiling
C7_TruePeakUnderCeiling ==
    (mpc = "clip") =>
        /\ OversampledPeak(audio) * AmpUnit
              <= DbToLin(params.true_peak_ceiling_db) * 1005
        /\ tp_after <= params.true_peak_ceiling_db

\* C7 witness: a finite buffer whose peak after the gain stage was above the
\* ceiling has been limited
C7_Witness ==
    /\ mpc = "clip" /\ ~HasNaN(audio)
    /\ tp_before > params.true_peak_ceiling_db
    /\ audio # prev_audio
    /\ Len(audio) = 2

\* C8: a non-empty all-zero buffer measures exactly the floor, -70; the gain
\* stage changes the buffer only when the measured loudness is a number above
\* -70; at or below the floor every sample is left as it was
C8_SilenceIsNotAmplified ==
    /\ (mpc = "gain" /\ Frames(audio) > 0 /\ AllZero(audio)) => current_lufs = SILENCE_LUFS
    /\ (mpc = "limit") =>
          /\ (audio # prev_audio => current_lufs # NaN /\ current_lufs > SILENCE_LUFS)
          /\ (current_lufs <= SILENCE_LUFS => audio = prev_audio)
          /\ (AllZero(prev_audio) => AllZero(audio))

\* C8 witness: a two-channel all-zero buffer has passed the gain stage
C8_Witness ==
    /\ mpc = "limit" /\ Len(prev_audio) = 2 /\ Frames(prev_audio) = 2
    /\ AllZero(prev_audio) /\ current_lufs = SILENCE_LUFS /\ audio = prev_audio

\* C9 as stated: no stage runs on a buffer that holds a NaN (the call has failed
\* instead), and no file is written from such a buffer
C9_Original ==
    /\ (stages # << >> /\ LastStage # "load" /\ HasNaN(prev_audio)) => mpc = "error"
    /\ HasNaN(audio) => ~outfile.exists

\* the number of frames the resampler must produce: the least L with
\* L / target_sr >= n / sr, which is ceil(n * up / down)
IsCeilOfRatio(L, n, rate, target_sr) ==
    /\ L * rate >= n * target_sr
    /\ (L > 0 => (L - 1) * rate < n * target_sr)

\* C10: after resampling from sr to a different target_sr every channel has
\* exactly ceil(n * up / down) frames, up / down being target_sr / sr in lowest
\* terms; the channel count is kept and the step does not fail
C10_ResampledLength ==
    /\ (LastStage = "resample" /\ infile.sr # params.target_sr) =>
          /\ mpc = "measure"
          /\ Len(audio) = Len(prev_audio)
          /\ sr = params.target_sr
          /\ \A c \in DOMAIN audio :
                IsCeilOfRatio(Len(audio[c]), Frames(prev_audio), infile.sr, params.target_sr)
    /\ LET up == UpOf(infile.sr, params.target_sr)
           down == DownOf(infile.sr, params.target_sr)
       IN  infile.readable =>
              /\ up * infile.sr = down * params.target_sr
              /\ Gcd(up, down) = 1

\* C10 witness: a two-channel buffer was resampled by a ratio that does not
\* divide its length
C10_Witness ==
    /\ LastStage = "resample" /\ infile.sr # params.target_sr
    /\ Len(audio) = 2 /\ Frames(prev_audio) >= 1
    /\ (Frames(prev_audio) * UpOf(infile.sr, params.target_sr))
           % DownOf(infile.sr, params.target_sr) # 0

\* C11: resampling preserves duration: the output's duration, frames over
\* target_sr, differs from the input's, frames over sr, by less than one output
\* sample period; multiplied out, |L * sr - n * target_sr| < sr
C11_DurationPreserved ==
    (LastStage = "resample" /\ mpc = "measure") =>
        \A c \in DOMAIN audio :
            Abs(Len(audio[c]) * infile.sr - Frames(prev_audio) * params.target_sr)
                < infile.sr

\* C11 witness: a buffer of the largest length was resampled to a lower rate
\* and its duration changed by a fraction of a sample period
C11_Witness ==
    /\ LastStage = "resample" /\ mpc = "measure"
    /\ params.target_sr < infile.sr
    /\ Frames(prev_audio) = MaxFrames
    /\ Frames(audio) * infile.sr # Frames(prev_audio) * params.target_sr

----------------------------------------------------------------------------
(* A second call of master_track on the file the first call wrote *)

\* mutant of FromPcm16: the 16-bit samples are read back at half their level
FromPcm16_Half(v) == RoundDiv(v * FullScale, 65536)

\* sf.read(..., dtype="float64") of a 16-bit file: one sample, scaled by 1 / 32768
FromPcm16(v) == RoundDiv(v * FullScale, 32768)

\* the buffer sf.read decodes from a file written by WriteWav
Decoded(f) == [c \in DOMAIN f.data |-> [k \in DOMAIN f.data[c] |-> FromPcm16(f.data[c][k])]]

\* a buffer whose loudest sample is below a tenth of full scale: the
\* fixed-point loudness of such a buffer is too coarse to compare levels with
Faint(buf) == ~HasNaN(buf) /\ ~AllZero(buf) /\ SamplePeak(buf) * 10 < FullScale

\* what the history notes about the first call when the second one starts
FirstPassKind ==
    IF HasNaN(audio) THEN "remaster_nonfinite"
    ELSE IF Faint(infile.audio) THEN "remaster_faint"
    ELSE "remaster"

Remastered ==
    \E i \in DOMAIN stages :
        stages[i] \in {"remaster", "remaster_nonfinite", "remaster_faint"}

\* master_track(input_path = the first call's output_path, same target_lufs,
\* true_peak_ceiling_db and target_sr): the call starts from the written file
Remaster ==
    /\ mpc = "done" /\ outfile.exists /\ ~Remastered
    /\ infile' = [readable |-> TRUE, sr |-> outfile.sr, audio |-> Decoded(outfile)]
    /\ stages' = Append(stages, FirstPassKind)
    /\ mpc' = "read"
    /\ audio' = << >>
    /\ sr' = 0
    /\ ndim' = 0
    /\ prev_audio' = << >>
    /\ outfile' = NoFile
    /\ UNCHANGED <<params, current_lufs, tp_before, tp_after, m_exc>>
    /\ UNCHANGED <<evars, jvars>>

NextRemaster ==
    \/ NextMaster
    \/ Remaster

SpecRemaster == InitMaster /\ [][NextRemaster]_vars

----------------------------------------------------------------------------
(* Claims about the second call (checked under SpecRemaster) *)

\* the second call has written its file; the first call's buffer was finite
\* and not faint
SecondPassDone ==
    /\ mpc = "done" /\ outfile.exists
    /\ \E i \in DOMAIN stages : stages[i] = "remaster"

\* C12: mastering is idempotent in level: the file the second call writes has
\* the loudness of the file it read, the first call's output, within 0.5 dB,
\* and its peak is within 0.5 dB (a factor below 1.06) of that file's peak
C12_SecondPassKeepsLevel ==
    SecondPassDone =>
        LET in2 == infile.audio
            out2 == Decoded(outfile)
        IN  /\ Abs(measure_lufs(out2) - measure_lufs(in2)) <= 5
            /\ OversampledPeak(out2) * 100 <= OversampledPeak(in2) * 106
            /\ OversampledPeak(in2) * 100 <= OversampledPeak(out2) * 106

\* C12 witness: the limiter engaged in the second call, on a buffer that the
\* first call's limiter had left below the target loudness
C12_Witness ==
    /\ SecondPassDone
    /\ tp_before > params.true_peak_ceiling_db
    /\ current_lufs < params.target_lufs - 10
    /\ ~AllZero(infile.audio)

----------------------------------------------------------------------------
(* Further claims about batch_export (checked under Spec) *)

\* the elements of a sequence
Range(q) == {q[i] : i \in DOMAIN q}

\* C13 as stated: a not-found response reports every requested identifier that
\* does not resolve and every resolved track whose audio file is missing
C13_Original ==
    (op = "batch_export" /\ pc = "raised" /\ response.status = 404) =>
        \A k \in DOMAIN request.track_ids :
            LET t == get_track(request.track_ids[k])
            IN  /\ (t = None => request.track_ids[k] \in Range(response.names))
                /\ (t # None /\ ~is_file(t) => TitleOrId(t) \in Range(response.names))

\* C14: a failure while a track is processed ends the call with one error
\* response: it names the track being processed by its title, or by its id when
\* the title is empty, and carries the cause; every earlier track was written,
\* so the track named is the first that failed; nothing happens afterwards
C14_ErrorNamesFirstFailingTrack ==
    (op = "batch_export" /\ pc = "raised" /\ response.status = 500) =>
        /\ response.kind = "failed_to_master"
        /\ idx \in DOMAIN tracks
        /\ response.names = <<IF tracks[idx].title # << >> THEN tracks[idx].title
                              ELSE request.track_ids[idx]>>
        /\ response.cause = exc /\ exc # "none"
        /\ Len(zf) = idx - 1
        /\ \A j \in 1..(idx - 1) : tracks[j].kind = "ok"
        /\ (tracks[idx].kind = "corrupt" => exc \in {"tempfile", "master_track"})
        /\ response.archive = << >>
        /\ ~ENABLED Next

\* C14 witness: the second track of a batch, one without a title, failed in
\* master_track after the first was written
C14_Witness ==
    /\ op = "batch_export" /\ pc = "raised" /\ response.status = 500
    /\ idx = 2 /\ Len(zf) = 1
    /\ tracks[2].title = << >>
    /\ exc = "master_track"
    /\ response.names = <<request.track_ids[2]>>

----------------------------------------------------------------------------
(* _safe_filename on its own, export.py:137-144 *)

MaxTitleLen == 4
LongPrefixLen == 78

\* the characters the titles are made of: a letter, the separators, an illegal
\* character and a control character
TitleChars == {"a", "_", " ", ".", "/", "\n"}

Repeat(ch, n) == [i \in 1..n |-> ch]

\* short titles, titles around the 80-character limit, and titles that spell
\* the default name
TitleInputs ==
    LET short == SeqsUpTo(TitleChars, MaxTitleLen)
    IN  short
        \cup {Repeat("a", LongPrefixLen) \o s : s \in short}
        \cup {DefaultName, <<" ">> \o DefaultName \o <<".">>, <<"t", "r", "a", "c", "k", "s">>}

InitName ==
    /\ JobsIdle
    /\ MasterIdle
    /\ op = "_safe_filename"
    /\ library = << >>
    /\ request = [track_ids |-> << >>, format |-> "wav"]
    /\ \E t \in TitleInputs : tracks = <<[id |-> << >>, title |-> t, kind |-> "ok"]>>
    /\ pc = "start"
    /\ idx = 0
    /\ used_names = {}
    /\ out_name = << >>
    /\ tmp_path = 0
    /\ tmpfiles = << >>
    /\ created = {}
    /\ zf = << >>
    /\ mastered = << >>
    /\ exc = "none"
    /\ response = NoResponse

\* _safe_filename(title) with the default max_len
SafeFilename ==
    /\ op = "_safe_filename" /\ pc = "start"
    /\ out_name' = _safe_filename(tracks[1].title, max_len_default)
    /\ pc' = "returned"
    /\ UNCHANGED <<mvars, jvars>>
    /\ UNCHANGED <<op, library, request, tracks, idx, used_names, tmp_path, tmpfiles,
                   created, zf, mastered, exc, response>>

NextName == SafeFilename

SpecName == InitName /\ [][NextName]_vars

----------------------------------------------------------------------------
(* Claims about _safe_filename (checked under SpecName) *)

\* the call has returned: out_name is the result for the title tracks[1].title
NameReturned == op = "_safe_filename" /\ pc = "returned"

\* the characters a file name must not hold: < > : " / \ | ? *, the control
\* characters, and whitespace
ForbiddenInNames ==
    {"<", ">", ":", "\"", "/", "\\", "|", "?", "*", "\t", "\n", "\r", " "}

NoForbidden(s) == \A k \in DOMAIN s : s[k] \notin ForbiddenInNames

\* C15: the result holds no illegal character, no control character, no
\* whitespace and no two underscores in a row; so the archive names made from
\* it, plain or numbered, hold no path separator
C15_NameIsClean ==
    NameReturned =>
        /\ NoForbidden(out_name)
        /\ \A k \in 1..(Len(out_name) - 1) : ~(out_name[k] = "_" /\ out_name[k + 1] = "_")
        /\ \A fmt \in Formats :
              /\ NoForbidden(PlainName(out_name, Ext(fmt)))
              /\ \A n \in 1..MaxTracks : NoForbidden(NumberedName(out_name, n, Ext(fmt)))

\* C15 witness: a title holding a path separator, a control character and a
\* run of separators came back as a clean name
C15_Witness ==
    /\ NameReturned
    /\ tracks[1].title = <<"a", "/", "\n", "a">>
    /\ out_name = <<"a", "_", "a">>

\* the separator characters a name must not begin or end with
Separators == {"_", ".", " "}

\* nothing of the title remains after cleaning and trimming: every character
\* is illegal, whitespace or a separator
NothingRemains(title) ==
    \A k \in DOMAIN title : title[k] \in ForbiddenInNames \cup Separators

\* the result is not empty, has at most 80 characters, and neither begins nor
\* ends with a separator
WellFormedName(s) ==
    /\ s # << >>
    /\ Len(s) <= 80
    /\ s[1] \notin Separators
    /\ s[Len(s)] \notin Separators

\* C16 as stated: a well-formed name, which is "track" exactly when nothing of
\* the title remains
C16_Original ==
    NameReturned =>
        /\ WellFormedName(out_name)
        /\ (out_name = DefaultName <=> NothingRemains(tracks[1].title))

\* C16: the result is a well-formed name, also for a title cut at 80 characters;
\* it is the default "track" whenever nothing of the title remains, and
\* otherwise it is "track" only for a title that itself cleans to "track"
C16_WellFormedOrDefault ==
    NameReturned =>
        /\ WellFormedName(out_name)
        /\ (NothingRemains(tracks[1].title) => out_name = DefaultName)
        /\ (out_name = DefaultName /\ ~NothingRemains(tracks[1].title) =>
                Strip(Collapse(SubIllegal(tracks[1].title)), Separators) = DefaultName)

\* C16 witness: a title longer than 80 characters whose cut falls behind a
\* separator came back shorter than 80, ending in a letter
C16_Witness ==
    /\ NameReturned
    /\ Len(tracks[1].title) > 80
    /\ tracks[1].title[80] \in Separators
    /\ Len(out_name) < 80

----------------------------------------------------------------------------
(* Further claims about master_track (checked under SpecMaster) *)

\* the source file decodes to zero samples
EmptySource == infile.readable /\ Frames(infile.audio) = 0

\* C17 as stated: for a source of zero samples the call fails and writes no
\* file, and the empty buffer reaches neither the loudness stages nor the
\* limiter nor the encoder
C17_Original ==
    EmptySource =>
        /\ mpc # "done" /\ ~outfile.exists
        /\ \A i \in DOMAIN stages : stages[i] \notin {"measure", "gain", "limit", "encode"}

\* C18: when the file's rate is the target rate the resampling step changes
\* nothing: the buffer handed to the loudness measurement is the decoded buffer,
\* sample for sample, with its length, its channel count and its rate
C18_EqualRatesPassThrough ==
    (LastStage = "resample" /\ infile.sr = params.target_sr) =>
        /\ mpc = "measure"
        /\ audio = infile.audio
        /\ prev_audio = infile.audio
        /\ Len(audio) = Len(infile.audio)
        /\ \A c \in DOMAIN audio : Len(audio[c]) = Len(infile.audio[c])
        /\ sr = infile.sr

\* C18 witness: a two-channel buffer with sound in it passed the resampling
\* step at equal rates
C18_Witness ==
    /\ LastStage = "resample" /\ infile.sr = params.target_sr
    /\ Len(infile.audio) = 2 /\ Frames(infile.audio) = MaxStereoFrames
    /\ ~AllZero(infile.audio) /\ ~HasNaN(infile.audio)
    /\ audio = infile.audio

----------------------------------------------------------------------------
(* Several calls, one after another and alongside calls of other requests *)

MaxServeTracks == 2
MaxCreated == 3

\* the libraries of these runs: titles that collide once numbered, sources that
\* master or fail
ServeLibraries == [TrackIds -> [title : {<<"a">>, <<"a", "_", "1">>}, kind : {"ok", "corrupt"}]]

ServeRequests ==
    [track_ids : SeqsUpTo(TrackIds \cup {UnknownId}, MaxServeTracks), format : Formats]

InitServe ==
    /\ JobsIdle
    /\ InitExport
    /\ MasterIdle
    /\ library \in ServeLibraries
    /\ op = "batch_export" => request \in ServeRequests

\* the paths in the temp directory that are not this call's: files of calls
\* that run at the same time
ForeignPaths == DOMAIN tmpfiles \ {tmp_path}

\* a new call starts after the previous one has returned or raised. Its frame is
\* new: no track resolved, no tmp_path bound, no exception, no response. The
\* names it has yet to assign (used_names, out_name, zf) are left holding what
\* the previous call put there, so that only the call's own assignments at
\* export.py:67-69 can make them fresh
NewRequest ==
    /\ pc \in {"returned", "raised"}
    /\ Cardinality(created) < MaxCreated
    /\ \E o \in {"batch_export", "master_track_to_bytes"} :
          /\ op' = o
          /\ IF o = "batch_export"
             THEN /\ request' \in ServeRequests
                  /\ tracks' = << >>
             ELSE \E id \in TrackIds :
                     /\ request' = [track_ids |-> <<id>>, format |-> "wav"]
                     /\ tracks' = <<[id |-> id, title |-> library[id].title,
                                     kind |-> library[id].kind]>>
    /\ pc' = "start"
    /\ idx' = 0
    /\ tmp_path' = 0
    /\ exc' = "none"
    /\ response' = NoResponse
    /\ UNCHANGED <<mvars, jvars>>
    /\ UNCHANGED <<library, used_names, out_name, tmpfiles, created, zf, mastered>>

\* a call of another request, running at the same time, creates its temp file;
\* its locals are its own, the temp directory is shared
OtherCallCreatesTemp ==
    /\ ForeignPaths = {}
    /\ Cardinality(created) < MaxCreated
    /\ tmpfiles' = [q \in DOMAIN tmpfiles \cup {FreshPath} |->
                        IF q = FreshPath THEN "empty" ELSE tmpfiles[q]]
    /\ created' = created \cup {FreshPath}
    /\ UNCHANGED <<mvars, jvars>>
    /\ UNCHANGED <<op, library, request, pc, tracks, idx, used_names, out_name, tmp_path,
                   zf, mastered, exc, response>>

\* ... and removes it again
OtherCallUnlinksTemp ==
    /\ \E p \in ForeignPaths : tmpfiles' = Unlinked(tmpfiles, p)
    /\ UNCHANGED <<mvars, jvars>>
    /\ UNCHANGED <<op, library, request, pc, tracks, idx, used_names, out_name, tmp_path,
                   created, zf, mastered, exc, response>>

NextServe ==
    \/ Next
    \/ NewRequest
    \/ OtherCallCreatesTemp
    \/ OtherCallUnlinksTemp

SpecServe == InitServe /\ [][NextServe]_vars

----------------------------------------------------------------------------
(* Claims about calls in sequence and alongside others (checked under SpecServe) *)

\* the track a requested identifier stands for
TrackOf(k) == get_track(request.track_ids[k])

RECURSIVE NamesAlone(_)
\* the names the first k tracks of the request get in a call that starts from
\* an empty name set, whatever ran before
NamesAlone(k) ==
    IF k = 0 THEN << >>
    ELSE LET before == NamesAlone(k - 1)
             base_name == _safe_filename(TitleOrId(TrackOf(k)), max_len_default)
         IN  Append(before, AssignedName(base_name, Ext(request.format), Range(before)))

\* the payload of a track: a function of its source and of the format alone
PayloadAlone(k) ==
    IF request.format = "mp3" THEN encode_mp3(MasteredWav(TrackOf(k)))
    ELSE MasteredWav(TrackOf(k))

\* the archive the request yields when it is the only one ever made
ArchiveAlone ==
    LET names == NamesAlone(Len(request.track_ids))
    IN  [k \in DOMAIN request.track_ids |-> [name |-> names[k], payload |-> PayloadAlone(k)]]

\* C19: whatever calls ran before and whatever other calls have temp files
\* open, a call that returns delivers the archive its request yields on its
\* own: names and payloads are a function of the request and the library
C19_NoStateBetweenCalls ==
    /\ (op = "batch_export" /\ pc = "returned") =>
          /\ response.archive = ArchiveAlone
          /\ used_names = Range(NamesAlone(Len(request.track_ids)))
    /\ (op = "batch_export" /\ pc \in {"loop", "mktemp", "master", "package", "unlink"}) =>
          \A k \in DOMAIN zf : zf[k] = ArchiveAlone[k]
    /\ (op = "master_track_to_bytes" /\ pc = "returned") =>
          response.archive = <<[name |-> << >>, payload |-> MasteredWav(tracks[1])]>>

\* C19 witness: a batch of two tracks whose names collide was delivered after
\* an earlier call had mastered tracks, while another call's temp file exists
C19_Witness ==
    /\ op = "batch_export" /\ pc = "returned"
    /\ Len(response.archive) = 2
    /\ response.archive[2].name = <<"a", "_", "1", ".", "w", "a", "v">>
    /\ Len(mastered) > 2
    /\ ForeignPaths # {}

----------------------------------------------------------------------------
(* The per-track steps of batch_export run by a pool of workers: names are
   assigned in request order, the steps of different tracks interleave freely.
   Here idx counts the names assigned, out_name holds them by position,
   mastered holds each track's stage and tmp_path each track's temp file. *)

PoolLibraries == ServeLibraries

PoolRequests == [track_ids : SeqsUpTo(TrackIds, MaxTracks) \ {<< >>}, format : Formats]

\* a temp file just created
EmptyFile == [src |-> << >>, codec |-> "none"]

InitPool ==
    /\ JobsIdle
    /\ MasterIdle
    /\ op = "worker_pool"
    /\ library \in PoolLibraries
    /\ request \in PoolRequests
    /\ tracks = [k \in DOMAIN request.track_ids |-> get_track(request.track_ids[k])]
    /\ pc = "pool"
    /\ idx = 0
    /\ used_names = {}
    /\ out_name = << >>
    /\ tmp_path = [k \in DOMAIN request.track_ids |-> 0]
    /\ tmpfiles = << >>
    /\ created = {}
    /\ zf = << >>
    /\ mastered = [k \in DOMAIN request.track_ids |-> "todo"]
    /\ exc = "none"
    /\ response = NoResponse

\* export.py:73-81 for the next track in request order
PoolAssignName ==
    /\ op = "worker_pool" /\ pc = "pool" /\ idx < Len(tracks)
    /\ LET base_name == _safe_filename(TitleOrId(tracks[idx + 1]), max_len_default)
           name == AssignedName(base_name, Ext(request.format), used_names)
       IN  /\ out_name' = Append(out_name, name)
           /\ used_names' = used_names \cup {name}
    /\ idx' = idx + 1
    /\ UNCHANGED <<mvars, jvars>>
    /\ UNCHANGED <<op, library, request, pc, tracks, tmp_path, tmpfiles, created, zf,
                   mastered, exc, response>>

\* export.py:85-86 for track k
PoolCreateTemp(k) ==
    /\ op = "worker_pool" /\ pc = "pool" /\ mastered[k] = "todo"
    /\ tmp_path' = [tmp_path EXCEPT ![k] = FreshPath]
    /\ tmpfiles' = [q \in DOMAIN tmpfiles \cup {FreshPath} |->
                        IF q = FreshPath THEN EmptyFile ELSE tmpfiles[q]]
    /\ created' = created \cup {FreshPath}
    /\ mastered' = [mastered EXCEPT ![k] = "temp"]
    /\ UNCHANGED <<mvars, jvars>>
    /\ UNCHANGED <<op, library, request, pc, tracks, idx, used_names, out_name, zf,
                   exc, response>>

\* export.py:88-94 for track k; a failure ends the batch (export.py:110-118)
PoolMaster(k) ==
    /\ op = "worker_pool" /\ pc = "pool" /\ mastered[k] = "temp"
    /\ IF tracks[k].kind = "ok"
       THEN /\ tmpfiles' = [tmpfiles EXCEPT ![tmp_path[k]] = MasteredWav(tracks[k])]
            /\ mastered' = [mastered EXCEPT ![k] = "wav"]
            /\ UNCHANGED <<pc, exc, response>>
       ELSE /\ tmpfiles' = Unlinked(tmpfiles, tmp_path[k])
            /\ mastered' = [mastered EXCEPT ![k] = "failed"]
            /\ exc' = "master_track"
            /\ response' = Respond(500, "failed_to_master", <<TitleOrId(tracks[k])>>,
                                   "master_track")
            /\ pc' = "raised"
    /\ UNCHANGED <<mvars, jvars>>
    /\ UNCHANGED <<op, library, request, tracks, idx, used_names, out_name, tmp_path,
                   created, zf>>

\* export.py:96-103 for track k, once its name is assigned
PoolPackage(k) ==
    /\ op = "worker_pool" /\ pc = "pool" /\ mastered[k] = "wav" /\ k <= idx
    /\ \/ /\ LET wav == tmpfiles[tmp_path[k]]
             IN  zf' = Append(zf, [name |-> out_name[k],
                                   payload |-> IF request.format = "mp3"
                                               THEN encode_mp3(wav) ELSE wav])
          /\ mastered' = [mastered EXCEPT ![k] = "packed"]
          /\ UNCHANGED <<pc, tmpfiles, exc, response>>
       \/ /\ tmpfiles' = Unlinked(tmpfiles, tmp_path[k])
          /\ mastered' = [mastered EXCEPT ![k] = "failed"]
          /\ exc' \in (IF request.format = "mp3" THEN {"encode_mp3", "zip_write"}
                                                   ELSE {"zip_write"})
          /\ response' = Respond(500, "failed_to_master", <<TitleOrId(tracks[k])>>, exc')
          /\ pc' = "raised"
          /\ UNCHANGED zf
    /\ UNCHANGED <<mvars, jvars>>
    /\ UNCHANGED <<op, library, request, tracks, idx, used_names, out_name, tmp_path,
                   created>>

\* export.py:106 for track k
PoolUnlink(k) ==
    /\ op = "worker_pool" /\ pc = "pool" /\ mastered[k] = "packed"
    /\ tmpfiles' = Unlinked(tmpfiles, tmp_path[k])
    /\ mastered' = [mastered EXCEPT ![k] = "done"]
    /\ UNCHANGED <<mvars, jvars>>
    /\ UNCHANGED <<op, library, request, pc, tracks, idx, used_names, out_name, tmp_path,
                   created, zf, exc, response>>

\* export.py:120-134 once every track is done
PoolReturn ==
    /\ op = "worker_pool" /\ pc = "pool"
    /\ \A k \in DOMAIN mastered : mastered[k] = "done"
    /\ response' = [status |-> 200, kind |-> "zip", names |-> << >>, cause |-> "none",
                    archive |-> zf,
                    filename |-> IF request.format = "mp3" THEN "mp3_export.zip"
                                                           ELSE "mastered_export.zip"]
    /\ pc' = "returned"
    /\ UNCHANGED <<mvars, jvars>>
    /\ UNCHANGED <<op, library, request, tracks, idx, used_names, out_name, tmp_path,
                   tmpfiles, created, zf, mastered, exc>>

NextPool ==
    \/ PoolAssignName
    \/ \E k \in 1..MaxTracks : k \in DOMAIN tracks /\ PoolCreateTemp(k)
    \/ \E k \in 1..MaxTracks : k \in DOMAIN tracks /\ PoolMaster(k)
    \/ \E k \in 1..MaxTracks : k \in DOMAIN tracks /\ PoolPackage(k)
    \/ \E k \in 1..MaxTracks : k \in DOMAIN tracks /\ PoolUnlink(k)
    \/ PoolReturn

SpecPool == InitPool /\ [][NextPool]_vars

----------------------------------------------------------------------------
(* batch_export with master_track run stage by stage inside the loop
   (export.py:88-94 calling mastering_service.py:150-244) *)

\* the file at track.audio_path: a short mono or stereo recording, or a file
\* sf.read cannot decode
SourceOf(t) ==
    IF t.kind # "ok" THEN [readable |-> FALSE, sr |-> 0, audio |-> << >>]
    ELSE IF t.id = <<"t", "1">>
         THEN [readable |-> TRUE, sr |-> 48000, audio |-> <<<<300, -1000>>>>]
         ELSE [readable |-> TRUE, sr |-> 44100, audio |-> <<<<700, 0>>, <<0, 700>>>>]

\* request.target_lufs, request.true_peak_db, request.sample_rate
BatchParams == [target_lufs |-> -140, true_peak_ceiling_db |-> -10, target_sr |-> 44100]

InitBatch ==
    /\ JobsIdle
    /\ InitExport
    /\ MasterIdle
    /\ op = "batch_export"
    /\ library \in ServeLibraries
    /\ request.track_ids \in SeqsUpTo(TrackIds, MaxTracks)

\* export.py:88-94  master_track is entered with the track's path and the
\* request's parameters
CallMasterTrack ==
    /\ op = "batch_export" /\ pc = "master"
    /\ mastered' = Append(mastered, idx)
    /\ pc' = "mastering"
    /\ infile' = SourceOf(tracks[idx])
    /\ params' = BatchParams
    /\ mpc' = "read"
    /\ audio' = << >>
    /\ sr' = 0
    /\ ndim' = 0
    /\ current_lufs' = 0
    /\ tp_before' = 0
    /\ tp_after' = 0
    /\ prev_audio' = << >>
    /\ stages' = << >>
    /\ outfile' = NoFile
    /\ m_exc' = "none"
    /\ UNCHANGED <<op, library, request, tracks, idx, used_names, out_name, tmp_path,
                   tmpfiles, created, zf, exc, response>>
    /\ UNCHANGED jvars

\* mastering_service.py:244  master_track returns: the mastered WAV is at tmp_path
MasterTrackReturns ==
    /\ op = "batch_export" /\ pc = "mastering" /\ mpc = "done"
    /\ tmpfiles' = [tmpfiles EXCEPT ![tmp_path] = MasteredWav(tracks[idx])]
    /\ mpc' = "idle"
    /\ pc' = "package"
    /\ UNCHANGED <<infile, params, audio, sr, ndim, current_lufs, tp_before, tp_after,
                   prev_audio, stages, outfile, m_exc>>
    /\ UNCHANGED <<op, library, request, tracks, idx, used_names, out_name, tmp_path,
                   created, zf, mastered, exc, response>>
    /\ UNCHANGED jvars

\* export.py:110  an exception of master_track reaches the except clause
MasterTrackRaises ==
    /\ op = "batch_export" /\ pc = "mastering" /\ mpc = "error"
    /\ exc' = "master_track"
    /\ mpc' = "idle"
    /\ pc' = "except"
    /\ UNCHANGED <<infile, params, audio, sr, ndim, current_lufs, tp_before, tp_after,
                   prev_audio, stages, outfile, m_exc>>
    /\ UNCHANGED <<op, library, request, tracks, idx, used_names, out_name, tmp_path,
                   tmpfiles, created, zf, mastered, response>>
    /\ UNCHANGED jvars

NextBatch ==
    \/ ResolveTracks
    \/ VerifyFiles
    \/ AssignName
    \/ CreateTemp
    \/ CallMasterTrack
    \/ NextMaster
    \/ MasterTrackReturns
    \/ MasterTrackRaises
    \/ Package
    \/ UnlinkTemp
    \/ ExceptCleanup
    \/ ReturnArchive

SpecBatch == InitBatch /\ [][NextBatch]_vars

----------------------------------------------------------------------------
(* Claims about the order of the stages (checked under SpecBatch) *)

\* the stages of master_track in program order; "squeeze" is the flattening of
\* a single-channel buffer, "encode" the write of the 16-bit WAV
StageOrder == <<"load", "resample", "measure", "gain", "limit", "clip", "squeeze", "encode">>

\* C21: the stages a call of master_track has executed are always an initial
\* part of load, resample, measure, gain, limit, clip, (squeeze,) encode, so
\* each ran at most once and in that order; while a stage of track i runs, the
\* entries of exactly the tracks before i are in the archive and master_track
\* was entered for tracks 1..i and no other; and an entry is written only
\* after all stages of its track ran
C21_StagesInOrder ==
    /\ stages = SubSeq(StageOrder, 1, Len(stages))
    /\ (mpc \notin {"idle"}) => (op = "batch_export" /\ pc = "mastering")
    /\ (op = "batch_export" /\ pc = "mastering") =>
          /\ Len(zf) = idx - 1
          /\ mastered = [k \in 1..idx |-> k]
    /\ (op = "batch_export" /\ pc \in {"package", "unlink"}) =>
          /\ stages = StageOrder
          /\ mastered = [k \in 1..idx |-> k]
          /\ Len(zf) = (IF pc = "package" THEN idx - 1 ELSE idx)

\* C21 witness: the limiter stage of the second track has run after the first
\* track's entry was written
C21_Witness ==
    /\ op = "batch_export" /\ pc = "mastering" /\ idx = 2
    /\ stages = SubSeq(StageOrder, 1, 5)
    /\ Len(zf) = 1
    /\ mpc = "clip"

----------------------------------------------------------------------------
(* Further claims about the stages of master_track (checked under SpecMaster) *)

\* the limit stage has just returned a buffer
Limited == LastStage = "limit" /\ mpc = "clip"

\* the limiter found the peak of its input above the ceiling
Engaged ==
    OversampledPeak(prev_audio) * (AmpUnit \div FullScale) > DbToLin(params.true_peak_ceiling_db)

\* the positions of a buffer
Positions(buf) == (DOMAIN buf) \X (1..Frames(buf))

InUnitRange(buf) ==
    \A c \in DOMAIN buf : \A k \in DOMAIN buf[c] :
        buf[c][k] # NaN /\ buf[c][k] >= -FullScale /\ buf[c][k] <= FullScale

\* C23 as stated: the buffer handed to the encoder holds only samples in
\* [-1, 1], whatever the input and the parameters
C23_Original ==
    (mpc = "write" \/ LastStage = "encode") => InUnitRange(audio)

\* C24: from the load on, the buffer has the channel count of the source after
\* every stage, all channels have the same number of frames, and the buffer
\* keeps its channel axis until a single-channel buffer is flattened just
\* before the write; the file written has the channel count of the source
C24_ChannelCountFixed ==
    (infile.readable /\ mpc \notin {"idle", "read"}) =>
        /\ Len(audio) = Len(infile.audio)
        /\ \A c \in DOMAIN audio : Len(audio[c]) = Frames(audio)
        /\ (mpc \in {"resample", "measure", "gain", "limit", "clip", "squeeze"}) => ndim = 2
        /\ (mpc \in {"write", "done"}) => (ndim = 1 <=> Len(audio) = 1)
        /\ outfile.exists => Len(outfile.data) = Len(infile.audio)

\* C24 witness: a two-channel source was resampled, amplified, limited,
\* clipped and written with two channels
C24_Witness ==
    /\ mpc = "done" /\ outfile.exists
    /\ Len(infile.audio) = 2 /\ Len(outfile.data) = 2 /\ ndim = 2
    /\ infile.sr # params.target_sr
    /\ tp_before > params.true_peak_ceiling_db
    /\ current_lufs > SILENCE_LUFS

\* the loudness measured before the gain stage is a number above the floor
NonSilent == current_lufs # NaN /\ current_lufs > SILENCE_LUFS

\* C25: for non-silent input the buffer that leaves the gain stage measures
\* target_lufs (within 0.1 dB, the resolution of the measurement); when the
\* limiter engages its factor is below 1 and the loudness does not rise; the
\* clip guard does not raise it either; and when the limiter does not engage
\* the buffer handed on is the buffer the gain stage produced, sample for sample
C25_GainReachesTarget ==
    /\ (LastStage = "gain" /\ mpc = "limit" /\ NonSilent /\ ~Faint(prev_audio)) =>
          Abs(measure_lufs(audio) - params.target_lufs) <= 1
    /\ (Limited /\ NonSilent) =>
          IF Engaged
          THEN /\ RoundDiv(DbToLin(params.true_peak_ceiling_db) * 9980,
                           OversampledPeak(prev_audio)) < 100000
               /\ measure_lufs(audio) <= measure_lufs(prev_audio)
               /\ \A p \in Positions(audio) :
                     Abs(audio[p[1]][p[2]]) <= Abs(prev_audio[p[1]][p[2]])
          ELSE audio = prev_audio
    /\ (LastStage = "clip" /\ mpc = "squeeze" /\ NonSilent) =>
          /\ measure_lufs(audio) <= measure_lufs(prev_audio)
          /\ (tp_before <= params.true_peak_ceiling_db) => audio = prev_audio

\* C25 witness: a non-silent two-channel buffer was brought to the target and
\* then reduced by the limiter
C25_Witness ==
    /\ Limited /\ NonSilent /\ Engaged
    /\ Len(audio) = 2
    /\ measure_lufs(audio) < params.target_lufs - 10
    /\ Abs(measure_lufs(prev_audio) - params.target_lufs) <= 1

----------------------------------------------------------------------------
(* The two peak computations, measure_true_peak_db and _true_peak_limit, on
   numpy arrays as they are laid out: a 1-D array is a sequence of samples, a
   2-D array a sequence of rows (frames) of one sample per channel. *)

MaxPeakFrames == 2

PeakLevels == {0, 500, 1000, 1003, -1200, NaN}

\* 1-D arrays, single-column arrays and two-column arrays, not empty
PeakArrays ==
    {[ndim |-> 1, data |-> x] : x \in SeqsUpTo(PeakLevels, MaxPeakFrames) \ {<< >>}}
    \cup {[ndim |-> 2, data |-> [i \in DOMAIN x |-> <<x[i]>>]] :
             x \in SeqsUpTo(PeakLevels, MaxPeakFrames) \ {<< >>}}
    \cup {[ndim |-> 2, data |-> [i \in DOMAIN x |-> <<x[i], y[i]>>]] :
             x \in [1..MaxPeakFrames -> PeakLevels], y \in [1..MaxPeakFrames -> PeakLevels]}

\* audio[:, np.newaxis] of a 1-D array
NewAxis(arr) == [ndim |-> 2, data |-> [i \in DOMAIN arr.data |-> <<arr.data[i]>>]]

\* audio.shape[1] of a 2-D array
Columns(arr) == Len(arr.data[1])

\* audio[:, ch] of a 2-D array (ch counted from 1)
Column(arr, ch) == [i \in DOMAIN arr.data |-> arr.data[i][ch]]

RECURSIVE MeterLoop(_, _, _)
\* mastering_service.py:104-109  the loop over range(audio.shape[1])
MeterLoop(arr, ch, max_peak) ==
    IF ch > Columns(arr) THEN max_peak
    ELSE LET oversampled == resample_poly(Column(arr, ch), 4, 1)
             ch_peak == np_max_abs(oversampled)
         IN  MeterLoop(arr, ch + 1, py_max(max_peak, ch_peak))

\* mastering_service.py:100-109  max_peak of measure_true_peak_db
MeterPeak(arr) == MeterLoop(IF arr.ndim = 1 THEN NewAxis(arr) ELSE arr, 1, 0)

\* mastering_service.py:111-113  the value measure_true_peak_db returns, in 0.1 dB
MeterDb(arr) ==
    LET max_peak == MeterPeak(arr)
    IN  IF max_peak <= 0 THEN -1000 ELSE 2 * CentiLog10(max_peak, FullScale)

RECURSIVE LimiterLoop_FirstColumn(_, _, _)
\* mutant of LimiterLoop: only the first column is looked at
LimiterLoop_FirstColumn(work, ch, max_tp) ==
    IF ch > 1 THEN max_tp
    ELSE LimiterLoop_FirstColumn(work, ch + 1,
                     py_max(max_tp, np_max_abs(resample_poly(Column(work, ch), 4, 1))))

RECURSIVE LimiterLoop(_, _, _)
\* mastering_service.py:133-136  the loop over range(work.shape[1])
LimiterLoop(work, ch, max_tp) ==
    IF ch > Columns(work) THEN max_tp
    ELSE LimiterLoop(work, ch + 1,
                     py_max(max_tp, np_max_abs(resample_poly(Column(work, ch), 4, 1))))

\* mastering_service.py:126-136  max_tp of _true_peak_limit; work is a view
\* with a channel axis of a 1-D array and a copy of a 2-D one
LimiterPeak(arr) == LimiterLoop(IF arr.ndim = 1 THEN NewAxis(arr) ELSE arr, 1, 0)

\* mastering_service.py:138-145  what _true_peak_limit returns
LimiterOut(arr, ceiling_db) ==
    LET ceiling_lin == DbToLin(ceiling_db)
        max_tp == LimiterPeak(arr)
    IN  IF max_tp * (AmpUnit \div FullScale) <= ceiling_lin
        THEN arr
        ELSE LET reduction == RoundDiv(ceiling_lin * 9980, max_tp)
             IN  [ndim |-> arr.ndim,
                  data |-> IF arr.ndim = 1
                           THEN [i \in DOMAIN arr.data |-> Scale(arr.data[i], reduction, 100000)]
                           ELSE [i \in DOMAIN arr.data |->
                                   [c \in DOMAIN arr.data[i] |->
                                       Scale(arr.data[i][c], reduction, 100000)]]]

\* an array and a ceiling are given; the variables of master_track hold them
InitPeak ==
    /\ JobsIdle
    /\ ExportIdle
    /\ infile \in [readable : {TRUE}, sr : {44100}, audio : PeakArrays]
    /\ params \in [target_lufs : {-140}, true_peak_ceiling_db : Ceilings, target_sr : {44100}]
    /\ mpc = "tp_before"
    /\ audio = infile.audio
    /\ sr = infile.sr
    /\ ndim = infile.audio.ndim
    /\ current_lufs = 0
    /\ tp_before = 0
    /\ tp_after = 0
    /\ prev_audio = << >>
    /\ stages = << >>
    /\ outfile = NoFile
    /\ m_exc = "none"

\* mastering_service.py:222  tp_before = measure_true_peak_db(audio, sr)
PeakBefore ==
    /\ mpc = "tp_before"
    /\ tp_before' = MeterDb(audio)
    /\ mpc' = "tp_limit"
    /\ UNCHANGED <<infile, params, audio, sr, ndim, current_lufs, tp_after, prev_audio,
                   stages, outfile, m_exc>>
    /\ UNCHANGED <<evars, jvars>>

\* mastering_service.py:223  audio = _true_peak_limit(audio, sr, true_peak_ceiling_db)
PeakLimit ==
    /\ mpc = "tp_limit"
    /\ prev_audio' = audio
    /\ audio' = LimiterOut(audio, params.true_peak_ceiling_db)
    /\ mpc' = "tp_after"
    /\ UNCHANGED <<infile, params, sr, ndim, current_lufs, tp_before, tp_after,
                   stages, outfile, m_exc>>
    /\ UNCHANGED <<evars, jvars>>

\* mastering_service.py:224  tp_after = measure_true_peak_db(audio, sr)
PeakAfter ==
    /\ mpc = "tp_after"
    /\ tp_after' = MeterDb(audio)
    /\ mpc' = "tp_done"
    /\ UNCHANGED <<infile, params, audio, sr, ndim, current_lufs, tp_before, prev_audio,
                   stages, outfile, m_exc>>
    /\ UNCHANGED <<evars, jvars>>

NextPeak ==
    \/ PeakBefore
    \/ PeakLimit
    \/ PeakAfter

SpecPeak == InitPeak /\ [][NextPeak]_vars

----------------------------------------------------------------------------
(* Claims about the two peak computations (checked under SpecPeak) *)

\* _true_peak_limit has returned
PeakLimited == mpc \in {"tp_after", "tp_done"}

\* _true_peak_limit took the branch that reduces the gain
LimiterReduces ==
    LimiterPeak(prev_audio) * (AmpUnit \div FullScale) > DbToLin(params.true_peak_ceiling_db)

----------------------------------------------------------------------------
(* _safe_filename applied to its own result *)

\* _safe_filename(result) with the default max_len: the first result becomes
\* the argument tracks[2].title, out_name the second result
SafeFilenameAgain ==
    /\ op = "_safe_filename" /\ pc = "returned"
    /\ tracks' = Append(tracks, [id |-> << >>, title |-> out_name, kind |-> "ok"])
    /\ out_name' = _safe_filename(out_name, max_len_default)
    /\ pc' = "returned_twice"
    /\ UNCHANGED <<mvars, jvars>>
    /\ UNCHANGED <<op, library, request, idx, used_names, tmp_path, tmpfiles,
                   created, zf, mastered, exc, response>>

NextNameTwice ==
    \/ SafeFilename
    \/ SafeFilenameAgain

SpecNameTwice == InitName /\ [][NextNameTwice]_vars

\* C27: _safe_filename applied to its own result returns that result, for
\* short titles, titles longer than 80 characters and titles that reduce to
\* the default name
C27_SafeFilenameIdempotent ==
    (op = "_safe_filename" /\ pc = "returned_twice") => out_name = tracks[2].title

\* C27 witness: the second call was made on the result of a title that had
\* been cut at 80 characters and trimmed again
C27_Witness ==
    /\ op = "_safe_filename" /\ pc = "returned_twice"
    /\ Len(tracks[1].title) > 80
    /\ Len(tracks[2].title) < 80
    /\ out_name = tracks[2].title

----------------------------------------------------------------------------
(* A generation job: api/generate.py.  create_generation registers the job and
   submits _run to the executor; _run runs in a worker thread and hands its
   events to the event loop with call_soon_threadsafe; the loop runs the
   callbacks in the order they were handed over; every progress stream of the
   job takes its events from the job's one queue. *)

MaxProgress == 2
MaxStreams == 2

Subscribers == 1..MaxStreams

NoStream == [pc |-> "none", sent |-> << >>]

TerminalTypes == {"complete", "error"}

\* loop.call_soon_threadsafe(queue.put_nowait, ev) on an open loop
CallSoon(ev) == Append(loop_ready, ev)

\* the cancel_download variables, unused by a generation job
NoCancel ==
    /\ cancel_flags = FALSE
    /\ cancel_event = FALSE
    /\ cancel_pc = "idle"
    /\ cancel_log = << >>

\* generate.py:39-47, 101-102  the job is registered and _run is submitted
InitGen ==
    /\ ExportIdle
    /\ MasterIdle
    /\ NoCancel
    /\ job_status = "queued"
    /\ status_log = <<"queued">>
    /\ queue = << >>
    /\ loop_ready = << >>
    /\ loop_open = TRUE
    /\ worker_pc = "submitted"
    /\ progress_n = 0
    /\ streams = [s \in Subscribers |-> NoStream]
    /\ put_log = << >>

\* generate.py:52-53
RunStart ==
    /\ worker_pc = "submitted"
    /\ job_status' = "running"
    /\ status_log' = Append(status_log, "running")
    /\ worker_pc' = "generate"
    /\ UNCHANGED <<queue, loop_ready, loop_open, progress_n, streams, put_log,
                   cancel_flags, cancel_event, cancel_pc, cancel_log>>
    /\ UNCHANGED <<evars, mvars>>

\* generate.py:55-65  progress_cb, called by svc.generate; call_soon_threadsafe
\* raises on a closed loop and the exception is swallowed
ProgressCb ==
    /\ worker_pc = "generate" /\ progress_n < MaxProgress
    /\ progress_n' = progress_n + 1
    /\ loop_ready' = IF loop_open THEN CallSoon("progress") ELSE loop_ready
    /\ UNCHANGED <<job_status, queue, loop_open, worker_pc, streams, status_log, put_log,
                   cancel_flags, cancel_event, cancel_pc, cancel_log>>
    /\ UNCHANGED <<evars, mvars>>

\* generate.py:67-77  svc.generate returns; the tracks are saved, failures ignored
GenerateReturns ==
    /\ worker_pc = "generate"
    /\ worker_pc' = "set_complete"
    /\ UNCHANGED <<job_status, queue, loop_ready, loop_open, progress_n, streams,
                   status_log, put_log, cancel_flags, cancel_event, cancel_pc, cancel_log>>
    /\ UNCHANGED <<evars, mvars>>

\* generate.py:67-68, 89  _get_inference_service or svc.generate raises
GenerateRaises ==
    /\ worker_pc = "generate"
    /\ worker_pc' = "except"
    /\ UNCHANGED <<job_status, queue, loop_ready, loop_open, progress_n, streams,
                   status_log, put_log, cancel_flags, cancel_event, cancel_pc, cancel_log>>
    /\ UNCHANGED <<evars, mvars>>

\* generate.py:79-80
SetComplete ==
    /\ worker_pc = "set_complete"
    /\ job_status' = "complete"
    /\ status_log' = Append(status_log, "complete")
    /\ worker_pc' = "emit_complete"
    /\ UNCHANGED <<queue, loop_ready, loop_open, progress_n, streams, put_log,
                   cancel_flags, cancel_event, cancel_pc, cancel_log>>
    /\ UNCHANGED <<evars, mvars>>

\* generate.py:82-88  inside the try block: call_soon_threadsafe raises
\* RuntimeError on a closed loop, and the except clause is entered
EmitComplete ==
    /\ worker_pc = "emit_complete"
    /\ IF loop_open
       THEN /\ loop_ready' = CallSoon("complete")
            /\ worker_pc' = "finished"
       ELSE /\ worker_pc' = "except"
            /\ UNCHANGED loop_ready
    /\ UNCHANGED <<job_status, queue, loop_open, progress_n, streams, status_log, put_log,
                   cancel_flags, cancel_event, cancel_pc, cancel_log>>
    /\ UNCHANGED <<evars, mvars>>

\* generate.py:89-92
ExceptSetError ==
    /\ worker_pc = "except"
    /\ job_status' = "error"
    /\ status_log' = Append(status_log, "error")
    /\ worker_pc' = "emit_error"
    /\ UNCHANGED <<queue, loop_ready, loop_open, progress_n, streams, put_log,
                   cancel_flags, cancel_event, cancel_pc, cancel_log>>
    /\ UNCHANGED <<evars, mvars>>

\* generate.py:93-99  a failure of call_soon_threadsafe is swallowed
EmitError ==
    /\ worker_pc = "emit_error"
    /\ loop_ready' = IF loop_open THEN CallSoon("error") ELSE loop_ready
    /\ worker_pc' = "finished"
    /\ UNCHANGED <<job_status, queue, loop_open, progress_n, streams, status_log, put_log,
                   cancel_flags, cancel_event, cancel_pc, cancel_log>>
    /\ UNCHANGED <<evars, mvars>>

\* the event loop runs the oldest callback: queue.put_nowait(ev)
LoopRunsCallback ==
    /\ loop_open /\ loop_ready # << >>
    /\ queue' = Append(queue, Head(loop_ready))
    /\ put_log' = Append(put_log, [type |-> Head(loop_ready), status |-> job_status])
    /\ loop_ready' = Tail(loop_ready)
    /\ UNCHANGED <<job_status, loop_open, worker_pc, progress_n, streams, status_log,
                   cancel_flags, cancel_event, cancel_pc, cancel_log>>
    /\ UNCHANGED <<evars, mvars>>

\* the server shuts down: the loop is closed while the worker thread goes on
CloseLoop ==
    /\ loop_open
    /\ loop_open' = FALSE
    /\ UNCHANGED <<job_status, queue, loop_ready, worker_pc, progress_n, streams,
                   status_log, put_log, cancel_flags, cancel_event, cancel_pc, cancel_log>>
    /\ UNCHANGED <<evars, mvars>>

\* generate.py:105-112, 142  a client opens the progress stream of the job
Subscribe(s) ==
    /\ loop_open /\ streams[s].pc = "none"
    /\ streams' = [streams EXCEPT ![s].pc = "check"]
    /\ UNCHANGED <<job_status, queue, loop_ready, loop_open, worker_pc, progress_n,
                   status_log, put_log, cancel_flags, cancel_event, cancel_pc, cancel_log>>
    /\ UNCHANGED <<evars, mvars>>

\* generate.py:114-130  a finished job is answered from its status
StreamCheck(s) ==
    /\ loop_open /\ streams[s].pc = "check"
    /\ streams' = IF job_status \in TerminalTypes
                  THEN [streams EXCEPT ![s] = [pc |-> "ended",
                                               sent |-> Append(@.sent, job_status)]]
                  ELSE [streams EXCEPT ![s].pc = "waiting"]
    /\ UNCHANGED <<job_status, queue, loop_ready, loop_open, worker_pc, progress_n,
                   status_log, put_log, cancel_flags, cancel_event, cancel_pc, cancel_log>>
    /\ UNCHANGED <<evars, mvars>>

\* generate.py:132-137  queue.get() returns an event; it is sent, and a
\* terminal one ends the stream (on a timeout a keepalive is sent and the
\* stream waits again, lines 138-140)
StreamGet(s) ==
    /\ loop_open /\ streams[s].pc = "waiting" /\ queue # << >>
    /\ LET msg == Head(queue)
       IN  streams' = [streams EXCEPT ![s] =
                          [pc |-> IF msg \in TerminalTypes THEN "ended" ELSE "waiting",
                           sent |-> Append(@.sent, msg)]]
    /\ queue' = Tail(queue)
    /\ UNCHANGED <<job_status, loop_ready, loop_open, worker_pc, progress_n,
                   status_log, put_log, cancel_flags, cancel_event, cancel_pc, cancel_log>>
    /\ UNCHANGED <<evars, mvars>>

WorkerStep ==
    \/ RunStart
    \/ ProgressCb
    \/ GenerateReturns
    \/ GenerateRaises
    \/ SetComplete
    \/ EmitComplete
    \/ ExceptSetError
    \/ EmitError

NextGen ==
    \/ WorkerStep
    \/ LoopRunsCallback
    \/ CloseLoop
    \/ \E s \in Subscribers : Subscribe(s)
    \/ \E s \in Subscribers : StreamCheck(s)
    \/ \E s \in Subscribers : StreamGet(s)

SpecGen == InitGen /\ [][NextGen]_vars

IsPrefix(s, t) == Len(s) <= Len(t) /\ \A i \in DOMAIN s : s[i] = t[i]

IsTerminalPut(e) == e.type \in TerminalTypes

\* the worker thread has returned and the loop has run every callback it was handed
GenQuiescent == worker_pc = "finished" /\ (loop_ready = << >> \/ ~loop_open)

(* C28: the status of a generation job only moves queued -> running ->
   complete or queued -> running -> error and a terminal status never changes;
   exactly one terminal event is put on the job's queue, after every progress
   event of the job and never before the status has the matching terminal
   value. *)
C28_Original ==
    /\ \/ IsPrefix(status_log, <<"queued", "running", "complete">>)
       \/ IsPrefix(status_log, <<"queued", "running", "error">>)
    /\ Len(SelectSeq(put_log, IsTerminalPut)) <= 1
    /\ GenQuiescent => Len(SelectSeq(put_log, IsTerminalPut)) = 1
    /\ \A i \in DOMAIN put_log :
          put_log[i].type \in TerminalTypes =>
             /\ put_log[i].status = put_log[i].type
             /\ \A j \in DOMAIN put_log : put_log[j].type = "progress" => j < i

\* the case of C28 in which the claim fails: the status was "complete" and is "error"
C28_CompleteThenError ==
    status_log = <<"queued", "running", "complete", "error">>

(* The same job on a server that stays up.  The worker thread runs to its
   end (svc.generate terminates), the loop runs every callback it was handed,
   and every open stream is scheduled; whether and when a client subscribes is
   the client's choice. *)
NextGenLive ==
    \/ WorkerStep
    \/ LoopRunsCallback
    \/ \E s \in Subscribers : Subscribe(s)
    \/ \E s \in Subscribers : StreamCheck(s)
    \/ \E s \in Subscribers : StreamGet(s)

SpecGenLive ==
    /\ InitGen
    /\ [][NextGenLive]_vars
    /\ WF_vars(WorkerStep)
    /\ WF_vars(LoopRunsCallback)
    /\ \A s \in Subscribers : WF_vars(StreamCheck(s)) /\ WF_vars(StreamGet(s))

(* C29: every progress stream opened on a generation job eventually delivers
   a terminal event and then ends, for every subscriber, also when two clients
   subscribe to the same running job and when a client subscribes after the
   job finished. *)
C29_Original ==
    \A s \in Subscribers :
        (streams[s].pc # "none") ~> (streams[s].pc = "ended")

\* the case of C29 in which the claim fails: the one terminal event of the
\* job was taken by one stream while another stream is still waiting
C29_StarvedStream ==
    \E s, t \in Subscribers :
        /\ streams[s].pc = "waiting"
        /\ streams[t].pc = "ended"
        /\ GenQuiescent /\ queue = << >> /\ loop_ready = << >>

----------------------------------------------------------------------------
(* A download job: services/download_service.py.  start_download registers the
   job with its cancel event and submits _run_download to the executor;
   cancel_download is called from the request handler (api/downloads.py) while
   the worker thread runs. *)

MaxCancels == 2

FinalStatuses == {"complete", "cancelled", "error"}

\* DownloadService._emit: a failure of call_soon_threadsafe is swallowed
Emit(ev) == IF loop_open THEN CallSoon(ev) ELSE loop_ready

\* download_service.py:150-178  start_download has returned
InitDl ==
    /\ ExportIdle
    /\ MasterIdle
    /\ job_status = "downloading"
    /\ status_log = <<"downloading">>
    /\ cancel_flags = TRUE
    /\ cancel_event = FALSE
    /\ cancel_pc = "idle"
    /\ cancel_log = << >>
    /\ queue = << >>
    /\ loop_ready = << >>
    /\ loop_open = TRUE
    /\ worker_pc = "submitted"
    /\ progress_n = 0
    /\ streams = << >>
    /\ put_log = << >>

\* download_service.py:229-278  the first progress event, the monitor thread is started
DlBegin ==
    /\ worker_pc = "submitted"
    /\ loop_ready' = Emit("progress")
    /\ worker_pc' = "check_before"
    /\ UNCHANGED <<job_status, queue, loop_open, progress_n, streams, status_log, put_log,
                   cancel_flags, cancel_event, cancel_pc, cancel_log>>
    /\ UNCHANGED <<evars, mvars>>

\* download_service.py:262-275  _monitor reports the size on disk while the download runs
DlMonitor ==
    /\ worker_pc \in {"check_before", "snapshot", "check_after"}
    /\ progress_n < MaxProgress
    /\ progress_n' = progress_n + 1
    /\ loop_ready' = Emit("progress")
    /\ UNCHANGED <<job_status, queue, loop_open, worker_pc, streams, status_log, put_log,
                   cancel_flags, cancel_event, cancel_pc, cancel_log>>
    /\ UNCHANGED <<evars, mvars>>

\* download_service.py:280-283  (with the finally of lines 295-297 when it raises)
DlCheckBefore ==
    /\ worker_pc = "check_before"
    /\ worker_pc' = IF cancel_event THEN "interrupted" ELSE "snapshot"
    /\ UNCHANGED <<job_status, queue, loop_ready, loop_open, progress_n, streams,
                   status_log, put_log, cancel_flags, cancel_event, cancel_pc, cancel_log>>
    /\ UNCHANGED <<evars, mvars>>

\* download_service.py:285-289  snapshot_download returns
DlSnapshotReturns ==
    /\ worker_pc = "snapshot"
    /\ worker_pc' = "check_after"
    /\ UNCHANGED <<job_status, queue, loop_ready, loop_open, progress_n, streams,
                   status_log, put_log, cancel_flags, cancel_event, cancel_pc, cancel_log>>
    /\ UNCHANGED <<evars, mvars>>

\* download_service.py:285-289, 295-297, 313  snapshot_download raises
DlSnapshotRaises ==
    /\ worker_pc = "snapshot"
    /\ worker_pc' = "failed"
    /\ UNCHANGED <<job_status, queue, loop_ready, loop_open, progress_n, streams,
                   status_log, put_log, cancel_flags, cancel_event, cancel_pc, cancel_log>>
    /\ UNCHANGED <<evars, mvars>>

\* download_service.py:291-297  the check after the download, the monitor is stopped
DlCheckAfter ==
    /\ worker_pc = "check_after"
    /\ worker_pc' = IF cancel_event THEN "interrupted" ELSE "success"
    /\ UNCHANGED <<job_status, queue, loop_ready, loop_open, progress_n, streams,
                   status_log, put_log, cancel_flags, cancel_event, cancel_pc, cancel_log>>
    /\ UNCHANGED <<evars, mvars>>

\* the status is set and the event is emitted
DlFinish(st, ev) ==
    /\ job_status' = st
    /\ status_log' = Append(status_log, st)
    /\ loop_ready' = Emit(ev)
    /\ worker_pc' = "cleanup"
    /\ UNCHANGED <<queue, loop_open, progress_n, streams, put_log,
                   cancel_flags, cancel_event, cancel_pc, cancel_log>>
    /\ UNCHANGED <<evars, mvars>>

\* download_service.py:299-304
DlSuccess == worker_pc = "success" /\ DlFinish("complete", "complete")

\* download_service.py:306-311
DlInterrupted == worker_pc = "interrupted" /\ DlFinish("cancelled", "error")

\* download_service.py:313-321
DlFailed == worker_pc = "failed" /\ DlFinish("error", "error")

\* download_service.py:323-325  finally: self._cancel_flags.pop(job_id, None)
DlCleanup ==
    /\ worker_pc = "cleanup"
    /\ cancel_flags' = FALSE
    /\ worker_pc' = "finished"
    /\ UNCHANGED <<job_status, queue, loop_ready, loop_open, progress_n, streams,
                   status_log, put_log, cancel_event, cancel_pc, cancel_log>>
    /\ UNCHANGED <<evars, mvars>>

\* download_service.py:184-185, 188  flag = self._cancel_flags.get(job_id); an
\* Event object is always true, so `if flag` asks whether the entry exists.
\* The entry of cancel_log keeps the status the job had when the call began.
CancelLookup ==
    /\ cancel_pc = "idle" /\ Len(cancel_log) < MaxCancels
    /\ cancel_log' = Append(cancel_log, [ret |-> cancel_flags, status |-> job_status,
                                         returned |-> ~cancel_flags])
    /\ cancel_pc' = IF cancel_flags THEN "found" ELSE "idle"
    /\ UNCHANGED <<job_status, queue, loop_ready, loop_open, worker_pc, progress_n,
                   streams, status_log, put_log, cancel_flags, cancel_event>>
    /\ UNCHANGED <<evars, mvars>>

\* download_service.py:186-187  flag.set(); return True
CancelSetReturn ==
    /\ cancel_pc = "found"
    /\ cancel_event' = TRUE
    /\ cancel_log' = [cancel_log EXCEPT ![Len(cancel_log)].returned = TRUE]
    /\ cancel_pc' = "idle"
    /\ UNCHANGED <<job_status, queue, loop_ready, loop_open, worker_pc, progress_n,
                   streams, status_log, put_log, cancel_flags>>
    /\ UNCHANGED <<evars, mvars>>

NextDl ==
    \/ DlBegin
    \/ DlMonitor
    \/ DlCheckBefore
    \/ DlSnapshotReturns
    \/ DlSnapshotRaises
    \/ DlCheckAfter
    \/ DlSuccess
    \/ DlInterrupted
    \/ DlFailed
    \/ DlCleanup
    \/ CancelLookup
    \/ CancelSetReturn
    \/ LoopRunsCallback

SpecDl == InitDl /\ [][NextDl]_vars

(* C30: whenever cancel_download(job_id) returns True the final status of the
   download job is "cancelled" and never "complete", under every interleaving
   of the call with the worker thread; and cancel_download returns False for
   every job that had already reached a final status. *)
C30_Original ==
    \A i \in DOMAIN cancel_log :
        cancel_log[i].returned =>
            /\ (cancel_log[i].ret /\ job_status \in FinalStatuses) => job_status = "cancelled"
            /\ cancel_log[i].status \in FinalStatuses => ~cancel_log[i].ret

\* the cases of C30 in which the claim fails
C30_CompleteAfterTrue ==
    /\ worker_pc = "finished" /\ job_status = "complete"
    /\ \E i \in DOMAIN cancel_log : cancel_log[i].returned /\ cancel_log[i].ret

C30_TrueOnFinalJob ==
    \E i \in DOMAIN cancel_log :
        cancel_log[i].returned /\ cancel_log[i].ret /\ cancel_log[i].status \in FinalStatuses

====
